---- MODULE Spec2Model ----
(***************************************************************************)
(* A model of the joinly manager backend (backend_v2): the transcript      *)
(* consolidation of JoinlyClient, the response tasks of AgentManager and   *)
(* the agent lifecycle.  Offsets are in tenths of a second, so the merge   *)
(* threshold 2.0 of compactSegments is 20.  A text is a sequence of        *)
(* tokens; the token " " is a space.                                       *)
(***************************************************************************)
EXTENDS Integers, Sequences, FiniteSets, TLC

\* ------------------------------------------------------------------------
\* Bounds of the model
\* ------------------------------------------------------------------------
MaxCompactLen == 2
MaxBatch == 2
MaxUpdates == 2
MaxFired == 1
MaxUtterances == 3
MaxInFlight == 2
MaxAgents == 1
MaxCreates == 2
MaxStarts == 1
SendCap == 1
ChanCap == 1
MaxBroadcasts == 2
MaxCalls == 2
MaxSegs == 2
MaxRestarts == 2
MaxNameUpdates == 3
MaxCheckpointTasks == 2
MaxReturned == 2
MaxLogs == 2
MaxAppends == 2

\* ------------------------------------------------------------------------
\* Program constants
\* ------------------------------------------------------------------------
MergeGap == 20
ProcessedCap == 100
MaxEntries == 20

LogBufferSize == 1000
AgentLogs == 100
AgentName == "Joinly"

\* ------------------------------------------------------------------------
\* Text helpers (strings.ToLower, strings.TrimSpace, strings.Contains)
\* ------------------------------------------------------------------------
ToLowerTok(t) ==
    CASE t = "Joinly" -> "joinly"
      [] t = "Sure" -> "sure"
      [] t = "Alice" -> "alice"
      [] t = "Bob" -> "bob"
      [] t = "Assistant" -> "assistant"
      [] OTHER -> t

ToLower(text) == [i \in 1..Len(text) |-> ToLowerTok(text[i])]

RECURSIVE TrimLeft(_)
TrimLeft(text) ==
    IF text # <<>> /\ Head(text) = " " THEN TrimLeft(Tail(text)) ELSE text

RECURSIVE TrimRight(_)
TrimRight(text) ==
    IF text # <<>> /\ text[Len(text)] = " "
    THEN TrimRight(SubSeq(text, 1, Len(text) - 1))
    ELSE text

TrimSpace(text) == TrimRight(TrimLeft(text))

Contains(text, tok) == \E i \in 1..Len(text) : text[i] = tok

Normalize(text) == ToLower(TrimSpace(text))

\* ------------------------------------------------------------------------
\* Transcript segments
\* ------------------------------------------------------------------------
Seg(sp, ro, tx, st, en) ==
    [speaker |-> sp, role |-> ro, text |-> tx, start |-> st, end |-> en]

\* isAgentSpeaker: role first, then the speaker-name heuristics
isAgentSpeaker(segment) ==
    IF segment.role = "assistant" THEN TRUE
    ELSE IF segment.speaker = "Assistant"
            /\ (Contains(segment.text, "[Heard:") \/ Contains(segment.text, "That's great"))
         THEN TRUE
    ELSE IF AgentName # "" /\ segment.speaker # "" /\ segment.speaker # "Participant"
         THEN ToLowerTok(segment.speaker) = ToLowerTok(AgentName)
    ELSE FALSE

\* nameInText with a config name n
nameInText(n, text) ==
    IF n = "" THEN TRUE ELSE Contains(ToLower(text), ToLowerTok(n))

hasProcessedSegment(processed, text) == Normalize(text) \in processed

markSegmentProcessed(processed, text) ==
    LET n == Normalize(text)
        p == processed \cup {n}
    IN IF Cardinality(p) > ProcessedCap THEN {n} ELSE p

hashText(text) == <<"sha256", TrimSpace(text)>>

\* ------------------------------------------------------------------------
\* compactSegments
\* ------------------------------------------------------------------------
\* sort.Slice by start; for slices of at most 12 elements the library runs an
\* insertion sort, which keeps the order of equal starts
RECURSIVE InsertByStart(_, _)
InsertByStart(sorted, s) ==
    IF sorted = <<>> THEN <<s>>
    ELSE IF s.start < sorted[Len(sorted)].start
         THEN Append(InsertByStart(SubSeq(sorted, 1, Len(sorted) - 1), s), sorted[Len(sorted)])
         ELSE Append(sorted, s)

RECURSIVE SortByStart(_)
SortByStart(segs) ==
    IF segs = <<>> THEN <<>>
    ELSE InsertByStart(SortByStart(SubSeq(segs, 1, Len(segs) - 1)), segs[Len(segs)])

canMergeWrong(current, segment) ==
    current.speaker = segment.speaker /\ (segment.start - current.end) < MergeGap

canMerge(current, segment) ==
    current.speaker = segment.speaker /\ (segment.start - current.end) <= MergeGap

mergeInto(current, segment) ==
    LET txt == IF current.text # <<>> /\ segment.text # <<>>
               THEN current.text \o <<" ">> \o segment.text
               ELSE IF segment.text # <<>> THEN segment.text
               ELSE current.text
    IN [current EXCEPT !.text = txt, !.end = segment.end]

RECURSIVE compactLoop(_, _, _)
compactLoop(compacted, current, rest) ==
    IF rest = <<>> THEN Append(compacted, current)
    ELSE IF canMerge(current, Head(rest))
         THEN compactLoop(compacted, mergeInto(current, Head(rest)), Tail(rest))
         ELSE compactLoop(Append(compacted, current), Head(rest), Tail(rest))

compactSegments(segments) ==
    IF Len(segments) <= 1 THEN segments
    ELSE LET sorted == SortByStart(segments)
         IN compactLoop(<<>>, sorted[1], Tail(sorted))

\* ------------------------------------------------------------------------
\* State
\* ------------------------------------------------------------------------
VARIABLES
    \* compactSegments applied to a bounded input
    cIn, cOut, cDone,
    \* one JoinlyClient
    startCalled, isRunning, isConnected, isJoined,
    lastUtteranceStart, lastSegmentStart,
    pendingSegments, debounceTimer, timerFuncs,
    processedSegments, utteranceStates, assistantJobs,
    nameTrigger, universe, pushRead, pollRead,
    \* history of the client: segments delivered, lists for which a callback
    \* goroutine was started, those whose goroutine has begun to run, calls
    \* made, Stop on a pending buffer
    delivered, inOrder, emitted, invoked, nUpdates, stopHadPending,
    \* the response tasks of one agent (AgentManager.handleUtterance)
    tpc, tokenCancelled, utteranceTasks,
    conversationMode, conversationHistory, analystTranscript,
    spoken, speakErrors, superseded

compactVars == <<cIn, cOut, cDone>>

clientVars == <<startCalled, isRunning, isConnected, isJoined, lastUtteranceStart,
                lastSegmentStart, pendingSegments, debounceTimer, timerFuncs,
                processedSegments, utteranceStates, assistantJobs,
                nameTrigger, universe, pushRead, pollRead,
                delivered, inOrder, emitted, invoked, nUpdates, stopHadPending>>

taskVars == <<tpc, tokenCancelled, utteranceTasks,
              conversationMode, conversationHistory, analystTranscript,
              spoken, speakErrors, superseded>>

VARIABLES
    running, ctxCancelled, agents, clients, agentContexts, logBuffers,
    meetings, workers, nextId, result, statusEvents, stopReturned, stopPc

managerVars == <<running, ctxCancelled, stopPc, agents, clients, agentContexts, logBuffers,
                 meetings, workers, nextId, result, statusEvents, stopReturned>>

VARIABLES
    \* the websocket Hub, its three channels, and its subscribers
    hubRunning, hubLoop, chClosed, hubClients, clientsByAgent, sessionClients,
    broadcastCh, registerCh, unregisterCh, send, sendClosed, spc,
    pubPending, nPublished, hubPanic

hubVars == <<hubRunning, hubLoop, chClosed, hubClients, clientsByAgent, sessionClients,
             broadcastCh, registerCh, unregisterCh, send, sendClosed, spc,
             pubPending, nPublished, hubPanic>>

VARIABLES
    \* StopAgent seen from the response tasks of the agent: whether it has
    \* run, and the tasks that were outstanding when it ran
    agentStopped, stoppedWhile

cancelVars == <<agentStopped, stoppedWhile>>

VARIABLES
    \* the data of one AnalystAgent, the utterances it was handed that
    \* carried text, and the number of ProcessUtterance calls
    Transcript, Participants, WordCount, handed, nCalls

analystVars == <<Transcript, Participants, WordCount, handed, nCalls>>

VARIABLES
    \* the goroutines that take m.mu, c.mu and h.mu: the operations each has
    \* left, the write or call it is inside, and for each lock its exclusive
    \* holder and its readers
    todo, busy, holder, readers

lockVars == <<todo, busy, holder, readers>>

VARIABLES
    \* the Agent struct the agents map points to, what the supervisor wrote to it, and the Agent values handed to callers
    heapAgent, written, returned

returnVars == <<heapAgent, written, returned>>

VARIABLES
    \* every entry appended to the conversation history of the agent, the last context built for the model and the history it was built from
    appended, builtContext, contextFrom

contextVars == <<appended, builtContext, contextFrom>>

vars == <<compactVars, clientVars, taskVars, managerVars, hubVars, cancelVars,
          analystVars,
          lockVars,
          returnVars,
          contextVars>>

\* ------------------------------------------------------------------------
\* compactSegments on bounded inputs
\* ------------------------------------------------------------------------
GenTexts == {<<>>, <<"x">>, <<"y">>}

GenStarts == {0, 10, 30, 31}

GenSegs ==
    {Seg(sp, "participant", tx, st, st + d) :
        sp \in {"Alice", "Bob"}, tx \in GenTexts, st \in GenStarts, d \in {0, 10}}

SeqsUpTo(S, n) == UNION {[1..k -> S] : k \in 0..n}

CompactIdle == cIn = <<>> /\ cOut = <<>> /\ cDone = FALSE

CompactInit == cIn \in SeqsUpTo(GenSegs, MaxCompactLen) /\ cOut = <<>> /\ cDone = FALSE

Compact ==
    /\ ~cDone
    /\ cOut' = compactSegments(cIn)
    /\ cDone' = TRUE
    /\ UNCHANGED cIn

\* ------------------------------------------------------------------------
\* One JoinlyClient: the transcript pipeline
\* ------------------------------------------------------------------------
\* The segments the backend can report.  P1, P2, P3 are the segments of the
\* README-style example; P4 follows P2 by 2.1 s and names the agent; A1, A2, A3
\* are the agent's own voice (by role, by name, by the "[Heard:" marker).
P1 == Seg("Alice", "participant", <<"hello">>, 0, 10)
P2 == Seg("Alice", "participant", <<"there">>, 12, 20)
P3 == Seg("Bob", "participant", <<"hi">>, 100, 105)
P4 == Seg("Alice", "participant", <<"Joinly">>, 41, 50)
P5 == Seg("Bob", "participant", <<"ok">>, 80, 85)
A1 == Seg("Joinly", "assistant", <<"Sure">>, 30, 35)
A2 == Seg("joinly", "participant", <<" ", "sure">>, 60, 65)
A3 == Seg("Assistant", "participant", <<"[Heard:">>, 70, 75)

\* The meetings modelled: the segments the backend reports in each
Scenarios == {{P1, P2, P3, A1}, {P2, P4, A1, A2}, {P1, P3, P4, A3}}

\* a transcript read: segments in transcript order, possibly repeated
IsOrdered(b) == \A i \in 1..(Len(b) - 1) : b[i].start <= b[i + 1].start

Batches == {b \in SeqsUpTo(universe, MaxBatch) : b # <<>> /\ IsOrdered(b)}

NilTimer == [state |-> "nil", latest |-> 0]

ClientNew ==
    /\ startCalled = FALSE
    /\ isRunning = FALSE /\ isConnected = FALSE /\ isJoined = FALSE
    /\ lastUtteranceStart = 0 /\ lastSegmentStart = 0
    /\ pendingSegments = <<>>
    /\ debounceTimer = NilTimer /\ timerFuncs = <<>>
    /\ processedSegments = {} /\ utteranceStates = {}
    /\ assistantJobs = {}
    /\ pushRead = FALSE /\ pollRead = FALSE
    /\ delivered = {} /\ inOrder = TRUE /\ emitted = <<>> /\ invoked = {}
    /\ nUpdates = 0
    /\ stopHadPending = FALSE

ClientIdle == ClientNew /\ nameTrigger = FALSE /\ universe = {}

ClientInit == ClientNew /\ nameTrigger \in BOOLEAN /\ universe \in Scenarios

\* a meeting in which the agent is named once and two remarks follow
NameScenario == {P4, P5, P3, A1}

histVars == <<universe, delivered, inOrder, emitted, invoked, nUpdates, stopHadPending>>

\* Start: connect and initialize; either both succeed or the client is left
\* not running and not connected.  The worker goroutine of StartAgent is the
\* only caller and calls it once on a client.
ClientStart ==
    /\ ~startCalled
    /\ startCalled' = TRUE
    /\ ~isConnected /\ ~isRunning
    /\ \/ isRunning' = TRUE /\ isConnected' = TRUE
       \/ isRunning' = FALSE /\ isConnected' = FALSE
    /\ UNCHANGED <<isJoined, lastUtteranceStart, lastSegmentStart, pendingSegments,
                   debounceTimer, timerFuncs, processedSegments, utteranceStates,
                   assistantJobs, nameTrigger, pushRead, pollRead, histVars>>

\* JoinMeeting: the transcript tracking is reset before the tool call, and
\* again after a successful join.  (LeaveMeeting has no caller: a client
\* leaves its meeting only in Stop.)
JoinMeeting ==
    /\ isConnected /\ ~isJoined
    /\ lastUtteranceStart' = 0 /\ lastSegmentStart' = 0
    /\ isJoined' \in BOOLEAN
    /\ UNCHANGED <<startCalled, isRunning, isConnected, pendingSegments, debounceTimer, timerFuncs,
                   processedSegments, utteranceStates, assistantJobs, nameTrigger,
                   pushRead, pollRead, histVars>>

\* --- utteranceUpdate ---------------------------------------------------

\* the assistant segments of a batch, each checked against and then added
\* to the processed cache in batch order
RECURSIVE assistantPass(_, _, _)
assistantPass(batch, processed, acc) ==
    IF batch = <<>> THEN [processed |-> processed, segs |-> acc]
    ELSE LET s == Head(batch)
         IN IF isAgentSpeaker(s) /\ ~hasProcessedSegment(processed, s.text)
            THEN assistantPass(Tail(batch), markSegmentProcessed(processed, s.text),
                               Append(acc, s))
            ELSE assistantPass(Tail(batch), processed, acc)

alreadyQueuedWrong(startVal, watermark) == startVal < watermark

\* startVal <= c.lastSegmentStart: already queued before
alreadyQueued(startVal, watermark) == startVal <= watermark

participantSegmentsOfWrong(batch, watermark) ==
    SelectSeq(batch, LAMBDA s : ~alreadyQueued(s.start, watermark))

participantSegmentsOf(batch, watermark) ==
    SelectSeq(batch, LAMBDA s : ~isAgentSpeaker(s) /\ ~alreadyQueued(s.start, watermark))

MaxStartWrong(segs, m) == m

RECURSIVE MaxStart(_, _)
MaxStart(segs, m) ==
    IF segs = <<>> THEN m
    ELSE MaxStart(Tail(segs), IF Head(segs).start > m THEN Head(segs).start ELSE m)

shouldTrigger(pending) ==
    IF nameTrigger
    THEN \E i \in 1..Len(pending) : nameInText(AgentName, pending[i].text)
    ELSE TRUE

participantsIn(batch) ==
    {batch[i] : i \in {j \in 1..Len(batch) : ~isAgentSpeaker(batch[j])}}

\* every participant segment of the batch not seen before starts no earlier
\* than every participant segment seen before
arrivesInOrder(batch, seen) ==
    \A s \in participantsIn(batch) \ seen : \A t \in seen : t.start <= s.start

utteranceUpdate(batch) ==
    IF ~isJoined
    THEN UNCHANGED <<lastSegmentStart, pendingSegments, debounceTimer,
                     processedSegments, assistantJobs, delivered, inOrder>>
    ELSE LET ap == assistantPass(batch, processedSegments, <<>>)
             participantSegments == participantSegmentsOf(batch, lastSegmentStart)
             latestStart == MaxStart(participantSegments, lastUtteranceStart)
             pending == pendingSegments \o participantSegments
         IN /\ processedSegments' = ap.processed
            /\ assistantJobs' = IF ap.segs # <<>>
                                THEN assistantJobs \cup {ap.segs} ELSE assistantJobs
            /\ delivered' = delivered \cup participantsIn(batch)
            /\ inOrder' = (inOrder /\ arrivesInOrder(batch, delivered))
            /\ IF participantSegments # <<>>
               THEN /\ pendingSegments' = pending
                    /\ lastSegmentStart' = IF latestStart > lastSegmentStart
                                           THEN latestStart ELSE lastSegmentStart
                    /\ debounceTimer' = IF shouldTrigger(pending)
                                        THEN [state |-> "armed", latest |-> latestStart]
                                        ELSE debounceTimer
               ELSE UNCHANGED <<pendingSegments, lastSegmentStart, debounceTimer>>

\* handleResourceUpdatedNotification: joined is read, then the transcript
ResourceUpdatedRead ==
    /\ isConnected /\ isJoined /\ ~pushRead
    /\ pushRead' = TRUE
    /\ UNCHANGED <<startCalled, isRunning, isConnected, isJoined, lastUtteranceStart, lastSegmentStart,
                   pendingSegments, debounceTimer, timerFuncs, processedSegments,
                   utteranceStates, assistantJobs, nameTrigger, pollRead, histVars>>

ResourceUpdatedDeliverWithin(maxUpdates) ==
    /\ pushRead /\ nUpdates < maxUpdates
    /\ \E batch \in Batches : utteranceUpdate(batch)
    /\ pushRead' = FALSE
    /\ nUpdates' = nUpdates + 1
    /\ UNCHANGED <<startCalled, isRunning, isConnected, isJoined, lastUtteranceStart, timerFuncs,
                   utteranceStates, nameTrigger, universe, pollRead, emitted, invoked, stopHadPending>>

ResourceUpdatedDeliver == ResourceUpdatedDeliverWithin(MaxUpdates)

\* handleResourceNotifications: the polling fallback, one tick
PollRead ==
    /\ isConnected /\ isJoined /\ ~pollRead
    /\ pollRead' = TRUE
    /\ UNCHANGED <<startCalled, isRunning, isConnected, isJoined, lastUtteranceStart, lastSegmentStart,
                   pendingSegments, debounceTimer, timerFuncs, processedSegments,
                   utteranceStates, assistantJobs, nameTrigger, pushRead, histVars>>

PollDeliverWithin(maxUpdates) ==
    /\ pollRead /\ nUpdates < maxUpdates
    /\ \E batch \in Batches : utteranceUpdate(batch)
    /\ pollRead' = FALSE
    /\ nUpdates' = nUpdates + 1
    /\ UNCHANGED <<startCalled, isRunning, isConnected, isJoined, lastUtteranceStart, timerFuncs,
                   utteranceStates, nameTrigger, universe, pushRead, emitted, invoked, stopHadPending>>

PollDeliver == PollDeliverWithin(MaxUpdates)

\* handleAssistantSegments: the goroutine started for the assistant segments
\* of a batch marks their texts processed again
RECURSIVE markAll(_, _)
markAll(segs, processed) ==
    IF segs = <<>> THEN processed
    ELSE markAll(Tail(segs),
                 IF TrimSpace(Head(segs).text) # <<>>
                 THEN markSegmentProcessed(processed, Head(segs).text)
                 ELSE processed)

handleAssistantSegments ==
    /\ \E job \in assistantJobs :
          /\ processedSegments' = markAll(job, processedSegments)
          /\ assistantJobs' = assistantJobs \ {job}
    /\ UNCHANGED <<startCalled, isRunning, isConnected, isJoined, lastUtteranceStart, lastSegmentStart,
                   pendingSegments, debounceTimer, timerFuncs, utteranceStates,
                   nameTrigger, pushRead, pollRead, histVars>>

\* the debounce delay elapses: time.AfterFunc starts the timer's function
TimerExpire ==
    /\ debounceTimer.state = "armed"
    /\ Len(timerFuncs) < MaxFired
    /\ debounceTimer' = [debounceTimer EXCEPT !.state = "fired"]
    /\ timerFuncs' = Append(timerFuncs, debounceTimer.latest)
    /\ UNCHANGED <<startCalled, isRunning, isConnected, isJoined, lastUtteranceStart, lastSegmentStart,
                   pendingSegments, processedSegments, utteranceStates, assistantJobs,
                   nameTrigger, pushRead, pollRead, histVars>>

RemoveAt(seq, i) == SubSeq(seq, 1, i - 1) \o SubSeq(seq, i + 1, Len(seq))


processConsolidatedUtteranceWrong(latestStart) ==
    /\ lastUtteranceStart' = latestStart
    /\ utteranceStates' = utteranceStates \cup {hashText(<<>>)}
    /\ emitted' = Append(emitted, pendingSegments)
    /\ pendingSegments' = <<>>

\* processConsolidatedUtterance, run by a timer's function
processConsolidatedUtterance(latestStart) ==
    IF pendingSegments = <<>>
    THEN UNCHANGED <<lastUtteranceStart, utteranceStates, emitted, pendingSegments>>
    ELSE LET compactedSegments == compactSegments(pendingSegments)
             combinedText == compactedSegments[1].text
         IN /\ lastUtteranceStart' = latestStart
            /\ utteranceStates' = utteranceStates \cup {hashText(combinedText)}
            /\ emitted' = Append(emitted, compactedSegments)
            /\ pendingSegments' = <<>>

TimerFunc ==
    /\ \E i \in 1..Len(timerFuncs) :
          /\ processConsolidatedUtterance(timerFuncs[i])
          /\ timerFuncs' = RemoveAt(timerFuncs, i)
    /\ UNCHANGED <<startCalled, isRunning, isConnected, isJoined, lastSegmentStart, debounceTimer,
                   processedSegments, assistantJobs, nameTrigger, universe, pushRead,
                   pollRead, delivered, inOrder, invoked, nUpdates, stopHadPending>>

\* a goroutine started by "go callback(compactedSegments)" begins to run:
\* the utterance callback is called with the i-th finalized list
CallbackRun ==
    /\ \E i \in (1..Len(emitted)) \ invoked : invoked' = invoked \cup {i}
    /\ UNCHANGED <<startCalled, isRunning, isConnected, isJoined, lastUtteranceStart,
                   lastSegmentStart, pendingSegments, debounceTimer, timerFuncs,
                   processedSegments, utteranceStates, assistantJobs, nameTrigger,
                   universe, pushRead, pollRead, delivered, inOrder, emitted, nUpdates,
                   stopHadPending>>

stopPendingWrong(pending) == pending

\* Stop clears the pending segments
stopPending(pending) == <<>>

\* Stop: timer stopped, pending cleared, meeting left, connection closed
ClientStop ==
    /\ isRunning
    /\ isRunning' = FALSE
    /\ debounceTimer' = NilTimer
    /\ pendingSegments' = stopPending(pendingSegments)
    /\ isJoined' = FALSE
    /\ isConnected' = FALSE
    /\ stopHadPending' = (stopHadPending
                          \/ (pendingSegments # <<>> /\ debounceTimer.state = "armed"))
    /\ UNCHANGED <<startCalled, lastUtteranceStart, lastSegmentStart, timerFuncs,
                   processedSegments, utteranceStates, assistantJobs, nameTrigger,
                   universe, pushRead, pollRead, delivered, inOrder, emitted, invoked,
                   nUpdates>>

\* ------------------------------------------------------------------------
\* The response tasks of one agent whose client is registered and joined
\* ------------------------------------------------------------------------
HelloThere == Seg("Alice", "participant", <<"hello", " ", "there">>, 0, 20)

NoText == Seg("Bob", "participant", <<>>, 30, 31)

\* the finalized lists handed to handleUtterance
TaskInputs == {<<HelloThere, P3>>, <<NoText>>}

TaskIds == 1..MaxUtterances

TaskIdle ==
    /\ tpc = [t \in TaskIds |-> "none"]
    /\ tokenCancelled = [t \in TaskIds |-> FALSE]
    /\ utteranceTasks = 0
    /\ conversationHistory = <<>>
    /\ analystTranscript = <<>>
    /\ spoken = <<>>
    /\ speakErrors = {}
    /\ superseded = {}

TaskInit == TaskIdle /\ conversationMode \in {"conversational", "analyst"}

\* lines 63-75 of processUtteranceTask: the last non-empty speaker, and the
\* non-empty texts, a space written before each one that is not at index 0
RECURSIVE lastSpeaker(_, _)
lastSpeaker(segments, speaker) ==
    IF segments = <<>> THEN speaker
    ELSE lastSpeaker(Tail(segments),
                     IF Head(segments).speaker # "" THEN Head(segments).speaker ELSE speaker)

RECURSIVE joinTexts(_, _, _)
joinTexts(segments, i, acc) ==
    IF i > Len(segments) THEN acc
    ELSE joinTexts(segments, i + 1,
                   IF segments[i].text # <<>>
                   THEN (IF i > 1 THEN acc \o <<" ">> ELSE acc) \o segments[i].text
                   ELSE acc)

fullTranscriptOf(segments) == joinTexts(segments, 1, <<>>)

updateConversationContextWrong(history, speaker, message) ==
    LET h == Append(history, [speaker |-> speaker, message |-> message])
    IN IF Len(h) > MaxEntries THEN SubSeq(h, 1, MaxEntries) ELSE h

\* updateConversationContext: append, keep the last MaxEntries
updateConversationContext(history, speaker, message) ==
    LET h == Append(history, [speaker |-> speaker, message |-> message])
    IN IF Len(h) > MaxEntries THEN SubSeq(h, Len(h) - MaxEntries + 1, Len(h)) ELSE h

\* a task that has been started and has not yet passed the cancellation
\* check that follows the model call
awaitingModel(t) == tpc[t] \in {"begin", "llm"}

\* the utterances whose handler or task is running
inFlight == {u \in TaskIds : tpc[u] \notin {"none", "done"}}

\* cancelFunc() of the stored entry, if any
cancelPrevious(cancelled, entry) ==
    IF entry # 0 THEN [cancelled EXCEPT ![entry] = TRUE] ELSE cancelled

\* handleUtterance(t), first critical section: cancel and delete the stored
\* entry.  Task ids follow the order in which the utterances were finalized;
\* each callback is its own goroutine, so the calls run in any order.
HandleCancel(t) ==
    /\ tpc[t] = "none"
    /\ Cardinality(inFlight) < MaxInFlight
    /\ tokenCancelled' = cancelPrevious(tokenCancelled, utteranceTasks)
    /\ utteranceTasks' = 0
    /\ superseded' = superseded \cup {u \in 1..(t - 1) : awaitingModel(u)}
    /\ tpc' = [tpc EXCEPT ![t] = "cancelledPrev"]
    /\ UNCHANGED <<conversationMode, conversationHistory, analystTranscript, spoken,
                   speakErrors>>

\* handleUtterance(t), second critical section: store the new cancel function;
\* then go func() { defer ...; m.processUtteranceTask(...) }()
HandleStore(t) ==
    /\ tpc[t] = "cancelledPrev"
    /\ utteranceTasks' = t
    /\ tpc' = [tpc EXCEPT ![t] = "begin"]
    /\ UNCHANGED <<tokenCancelled, conversationMode, conversationHistory,
                   analystTranscript, spoken, speakErrors, superseded>>

isAnalystModeWrong(mode) == FALSE

\* conversationMode == models.ConversationModeAnalyst
isAnalystMode(mode) == mode = "analyst"

ctxDoneWrong(t) == FALSE

\* select { case <-ctx.Done(): return; default: } in task t
ctxDone(t) == tokenCancelled[t]

\* processUtteranceTask up to the model call: the cancellation checks, the
\* analyst branch, the utterance logged and added to the history
TaskBegin(t) ==
    /\ tpc[t] = "begin"
    /\ \E segs \in TaskInputs :
         LET speaker == lastSpeaker(segs, "Participant")
             fullTranscript == fullTranscriptOf(segs)
         IN IF ctxDone(t) \/ fullTranscript = <<>>
            THEN /\ tpc' = [tpc EXCEPT ![t] = "cleanup"]
                 /\ UNCHANGED <<analystTranscript, conversationHistory>>
            ELSE IF isAnalystMode(conversationMode)
            THEN /\ analystTranscript' =
                       Append(analystTranscript, [speaker |-> speaker, text |-> fullTranscript])
                 /\ tpc' = [tpc EXCEPT ![t] = "cleanup"]
                 /\ UNCHANGED conversationHistory
            ELSE /\ conversationHistory' =
                       updateConversationContext(conversationHistory, speaker, fullTranscript)
                 /\ tpc' = [tpc EXCEPT ![t] = "llm"]
                 /\ UNCHANGED analystTranscript
    /\ UNCHANGED <<tokenCancelled, utteranceTasks, conversationMode, spoken, speakErrors, superseded>>

\* GenerateResponseWithContext returns, with a reply or with the empty
\* string; cancellation is checked; the reply is added to the history
TaskRespond(t) ==
    /\ tpc[t] = "llm"
    /\ \E reply \in {<<>>, <<"reply", t>>} :
         IF ctxDone(t) \/ reply = <<>>
         THEN /\ tpc' = [tpc EXCEPT ![t] = "cleanup"]
              /\ UNCHANGED conversationHistory
         ELSE /\ conversationHistory' =
                    updateConversationContext(conversationHistory, "Assistant", reply)
              /\ tpc' = [tpc EXCEPT ![t] = "speak"]
    /\ UNCHANGED <<tokenCancelled, utteranceTasks, conversationMode,
                   analystTranscript, spoken, speakErrors, superseded>>

\* client.SpeakText(response)
TaskSpeak(t) ==
    /\ tpc[t] = "speak"
    /\ spoken' = Append(spoken, t)
    /\ tpc' = [tpc EXCEPT ![t] = "cleanup"]
    /\ UNCHANGED <<tokenCancelled, utteranceTasks, conversationMode,
                   conversationHistory, analystTranscript, speakErrors, superseded>>

\* the deferred delete(m.utteranceTasks, agentID) of task t
deleteOwnEntry(entry, t) == 0

TaskCleanup(t) ==
    /\ tpc[t] = "cleanup"
    /\ utteranceTasks' = deleteOwnEntry(utteranceTasks, t)
    /\ tpc' = [tpc EXCEPT ![t] = "done"]
    /\ UNCHANGED <<tokenCancelled, conversationMode, conversationHistory,
                   analystTranscript, spoken, speakErrors, superseded>>

CancelIdle == agentStopped = FALSE /\ stoppedWhile = {}

\* the tasks that hold a token and have not returned
outstanding == {t \in TaskIds : tpc[t] \in {"begin", "llm", "speak"}}

\* StopAgent for the agent of these tasks, the agent running and its client
\* registered: agentCancel() ends the agent context and client.Stop() the
\* client; neither utteranceTasks nor a token, which is derived from m.ctx,
\* is touched
AgentStop ==
    /\ ~agentStopped
    /\ agentStopped' = TRUE
    /\ stoppedWhile' = outstanding
    /\ UNCHANGED taskVars

\* AgentManager.Stop: m.cancel() ends m.ctx and with it every token, those
\* of later tasks included; the stored cancel function is called and
\* utteranceTasks is emptied
SupervisorStop ==
    /\ \E t \in TaskIds : ~tokenCancelled[t]
    /\ tokenCancelled' = [t \in TaskIds |-> TRUE]
    /\ utteranceTasks' = 0
    /\ UNCHANGED <<tpc, conversationMode, conversationHistory, analystTranscript,
                   spoken, speakErrors, superseded, cancelVars>>

\* processUtteranceTask begun after StopAgent: m.clients holds no client
\* for the agent and the task returns
TaskBeginNoClient(t) ==
    /\ tpc[t] = "begin"
    /\ tpc' = [tpc EXCEPT ![t] = "cleanup"]
    /\ UNCHANGED <<tokenCancelled, utteranceTasks, conversationMode,
                   conversationHistory, analystTranscript, spoken, speakErrors, superseded>>

\* client.SpeakText(response) on a client that Stop has disconnected
\* returns the error "client not connected", which the task logs at level
\* error ("Failed to speak")
TaskSpeakFails(t) ==
    /\ tpc[t] = "speak"
    /\ speakErrors' = speakErrors \cup {t}
    /\ tpc' = [tpc EXCEPT ![t] = "cleanup"]
    /\ UNCHANGED <<tokenCancelled, utteranceTasks, conversationMode,
                   conversationHistory, analystTranscript, spoken, superseded>>

\* ------------------------------------------------------------------------
\* Locks.  m.mu guards the agent map, the agent fields and the log buffers,
\* c.mu the fields of a JoinlyClient (processedSegments among them), h.mu the
\* registries of the Hub.  A goroutine is the list of the lock operations,
\* writes and calls of the function it runs, in program order; a write and
\* a call take time, so each has a beginning and an end.
\* ------------------------------------------------------------------------
Op(kind, arg) == [kind |-> kind, arg |-> arg]

Locks == {"m.mu", "c.mu", "h.mu"}

\* the lock that guards a structure
Guard(structure) ==
    CASE structure \in {"agents", "logBuffers"} -> "m.mu"
      [] structure = "processedSegments" -> "c.mu"
      [] structure = "registries" -> "h.mu"

\* CreateAgent: the agent stored and addLogEntryUnsafe, under m.mu
CreateAgentOps ==
    <<Op("lock", "m.mu"), Op("write", "agents"), Op("write", "logBuffers"),
      Op("unlock", "m.mu")>>

\* the worker goroutine of StartAgent after joinlyClient.Start(): the client
\* registered and the status written under m.mu, addLogEntry after the
\* unlock, then JoinMeeting, which keeps c.mu from its first line to its
\* return, logs through the log callback (m.addLogEntry) and calls the
\* join_meeting tool
workerOps ==
    <<Op("lock", "m.mu"), Op("write", "agents"), Op("unlock", "m.mu"),
      Op("write", "logBuffers"),
      Op("lock", "c.mu"), Op("write", "logBuffers"), Op("call", "join"),
      Op("unlock", "c.mu")>>

\* StopAgent: m.mu from the first line to the return; stopAgent writes the
\* status, calls client.Stop(), which takes c.mu, logs and closes the MCP
\* client, and writes the status again
StopAgentOps ==
    <<Op("lock", "m.mu"), Op("write", "agents"),
      Op("lock", "c.mu"), Op("write", "logBuffers"), Op("call", "close"),
      Op("unlock", "c.mu"),
      Op("write", "agents"), Op("unlock", "m.mu")>>

\* utteranceUpdate marks assistant segments as processed under c.mu
utteranceUpdateOps ==
    <<Op("lock", "c.mu"), Op("write", "processedSegments"), Op("unlock", "c.mu")>>

\* go c.handleAssistantSegments(...): markSegmentProcessed, no lock taken
handleAssistantSegmentsOps == <<Op("write", "processedSegments")>>

\* processUtteranceTask: addLogEntry, the model call, then SpeakText, which
\* keeps the read lock of c.mu while it logs and calls the speak_text tool
processUtteranceTaskOps ==
    <<Op("write", "logBuffers"), Op("call", "model"),
      Op("rlock", "c.mu"), Op("write", "logBuffers"), Op("call", "speak"),
      Op("runlock", "c.mu")>>

\* Hub.run, register case
runRegisterOps ==
    <<Op("lock", "h.mu"), Op("write", "registries"), Op("unlock", "h.mu")>>

\* Hub.run, broadcast case: a subscriber whose queue is full is deleted
\* from the registries under the read lock
runBroadcastOps ==
    <<Op("rlock", "h.mu"), Op("write", "registries"), Op("runlock", "h.mu")>>

\* the goroutines and the functions each may run
Programs ==
    [api |-> {CreateAgentOps, StopAgentOps},
     worker |-> {workerOps},
     poll |-> {utteranceUpdateOps},
     assistant |-> {handleAssistantSegmentsOps},
     task |-> {processUtteranceTaskOps},
     run |-> {runRegisterOps, runBroadcastOps}]

Goroutines == DOMAIN Programs

LockNew ==
    /\ todo = [g \in Goroutines |-> << >>]
    /\ busy = [g \in Goroutines |-> Op("none", "none")]
    /\ holder = [l \in Locks |-> "none"]
    /\ readers = [l \in Locks |-> {}]

LockIdle == LockNew

idle(g) == busy[g].kind = "none"

next(g, kind) == todo[g] # << >> /\ idle(g) /\ Head(todo[g]).kind = kind

advance(g) == todo' = [todo EXCEPT ![g] = Tail(@)]

\* the goroutine is started, or the loop takes its next case
BeginOf(g, programs) ==
    /\ todo[g] = << >>
    /\ \E ops \in programs[g] : todo' = [todo EXCEPT ![g] = ops]
    /\ UNCHANGED <<busy, holder, readers>>

Begin(g) == BeginOf(g, Programs)

\* sync.RWMutex.Lock
Lock(g) ==
    /\ next(g, "lock")
    /\ LET l == Head(todo[g]).arg
       IN /\ holder[l] = "none"
          /\ readers[l] = {}
          /\ holder' = [holder EXCEPT ![l] = g]
    /\ advance(g)
    /\ UNCHANGED <<busy, readers>>

\* sync.RWMutex.RLock
RLock(g) ==
    /\ next(g, "rlock")
    /\ LET l == Head(todo[g]).arg
       IN /\ holder[l] = "none"
          /\ readers' = [readers EXCEPT ![l] = @ \cup {g}]
    /\ advance(g)
    /\ UNCHANGED <<busy, holder>>

\* sync.RWMutex.Unlock
Unlock(g) ==
    /\ next(g, "unlock")
    /\ holder' = [holder EXCEPT ![Head(todo[g]).arg] = "none"]
    /\ advance(g)
    /\ UNCHANGED <<busy, readers>>

\* sync.RWMutex.RUnlock
RUnlock(g) ==
    /\ next(g, "runlock")
    /\ readers' = [readers EXCEPT ![Head(todo[g]).arg] = @ \ {g}]
    /\ advance(g)
    /\ UNCHANGED <<busy, holder>>

\* a write to a shared structure, or a call to the backend or the model,
\* begins
Enter(g) ==
    /\ \/ next(g, "write")
       \/ next(g, "call")
    /\ busy' = [busy EXCEPT ![g] = Head(todo[g])]
    /\ advance(g)
    /\ UNCHANGED <<holder, readers>>

\* the write is done, the call returns
Leave(g) ==
    /\ ~idle(g)
    /\ busy' = [busy EXCEPT ![g] = Op("none", "none")]
    /\ UNCHANGED <<todo, holder, readers>>

\* --- who waits for whom ---------------------------------------------------

\* the lock operations and calls of a function, its writes left out
lockOps(ops) == SelectSeq(ops, LAMBDA o : o.kind # "write")

\* StartAgent: m.mu from the first line to the return
StartAgentOps == <<Op("lock", "m.mu"), Op("unlock", "m.mu")>>

\* DeleteAgent of a running agent: stopAgent, then the deletes, under m.mu
DeleteAgentOps == StopAgentOps

ManagerStopOpsWrong ==
    <<Op("lock", "m.mu"), Op("lock", "h.mu"), Op("unlock", "h.mu"),
      Op("wait", "wg"), Op("unlock", "m.mu")>>

\* AgentManager.Stop: m.cancel() and Hub.Stop(), which takes h.mu, under
\* m.mu; m.wg.Wait() after the unlock
ManagerStopOps ==
    <<Op("lock", "m.mu"), Op("lock", "h.mu"), Op("unlock", "h.mu"),
      Op("unlock", "m.mu"), Op("wait", "wg")>>

\* the worker goroutine when JoinMeeting fails: handleAgentError takes m.mu
workerErrorOps ==
    <<Op("lock", "m.mu"), Op("unlock", "m.mu"),
      Op("lock", "c.mu"), Op("call", "join"), Op("unlock", "c.mu"),
      Op("lock", "m.mu"), Op("unlock", "m.mu")>>

\* a poll: getTranscriptSegments reads the transcript under the read lock
\* of c.mu, then utteranceUpdate takes c.mu
pollOps ==
    <<Op("rlock", "c.mu"), Op("call", "read"), Op("runlock", "c.mu"),
      Op("lock", "c.mu"), Op("unlock", "c.mu")>>

\* handleUtterance and the goroutine it starts: the stored cancel function
\* replaced under m.mu, the maps read under the read lock, the history
\* updated under m.mu, the model call, SpeakText under the read lock of
\* c.mu, and the deferred delete under m.mu
handleUtteranceOps ==
    <<Op("lock", "m.mu"), Op("unlock", "m.mu"),
      Op("rlock", "m.mu"), Op("runlock", "m.mu"),
      Op("lock", "m.mu"), Op("unlock", "m.mu"),
      Op("call", "model"),
      Op("rlock", "c.mu"), Op("call", "speak"), Op("runlock", "c.mu"),
      Op("lock", "m.mu"), Op("unlock", "m.mu")>>

WaitPrograms ==
    [api |-> {StartAgentOps, lockOps(StopAgentOps), lockOps(DeleteAgentOps),
              ManagerStopOps},
     worker |-> {lockOps(workerOps), workerErrorOps},
     poll |-> {pollOps},
     assistant |-> {lockOps(handleAssistantSegmentsOps)},
     task |-> {handleUtteranceOps},
     run |-> {lockOps(runRegisterOps), lockOps(runBroadcastOps)}]

BeginWait(g) == BeginOf(g, WaitPrograms)

\* m.wg.Wait(): returns once no worker goroutine is running
Wait(g) ==
    /\ next(g, "wait")
    /\ todo["worker"] = << >> /\ idle("worker")
    /\ advance(g)
    /\ UNCHANGED <<busy, holder, readers>>

\* ------------------------------------------------------------------------
\* The Agent values CreateAgent, GetAgent and ListAgents hand to their
\* callers.  An Agent value is a Status and a Logs slice; a returned value
\* either is the struct the agents map points to (shared) or has fields of
\* its own.  seen is what the caller read at the return or wrote since.
\* ------------------------------------------------------------------------
Statuses == {"created", "starting", "running", "stopped"}

LogLevels == {"info", "error"}

Agent(status, logs) == [Status |-> status, Logs |-> logs]

\* no agent created yet
NoAgent == Agent("", << >>)

ReturnNew == heapAgent = NoAgent /\ written = NoAgent /\ returned = << >>

ReturnIdle == ReturnNew

\* return agent, nil: the pointer stored in m.agents
CreateAgentReturns(agent) ==
    [by |-> "CreateAgent", shared |-> TRUE, own |-> agent, seen |-> agent]

\* agentCopy := *agent; agentCopy.Logs = make(...); copy(...); return &agentCopy
GetAgentReturns(agent) ==
    [by |-> "GetAgent", shared |-> FALSE, own |-> agent, seen |-> agent]

ListAgentsReturns(agent) ==
    [by |-> "ListAgents", shared |-> FALSE, own |-> agent, seen |-> agent]

\* what the caller reads through a returned value
view(r) == IF r.shared THEN heapAgent ELSE r.own

CreateAgentCall ==
    /\ heapAgent = NoAgent
    /\ LET agent == Agent("created", <<"info">>)
       IN /\ heapAgent' = agent
          /\ written' = agent
          /\ returned' = Append(returned, CreateAgentReturns(agent))

GetAgentCall ==
    /\ heapAgent # NoAgent /\ Len(returned) < MaxReturned
    /\ returned' = Append(returned, GetAgentReturns(heapAgent))
    /\ UNCHANGED <<heapAgent, written>>

ListAgentsCall ==
    /\ heapAgent # NoAgent /\ Len(returned) < MaxReturned
    /\ returned' = Append(returned, ListAgentsReturns(heapAgent))
    /\ UNCHANGED <<heapAgent, written>>

\* the supervisor writes the status (StartAgent, the worker, stopAgent) or
\* appends a log entry (addLogEntryUnsafe)
SupervisorWrite ==
    /\ heapAgent # NoAgent
    /\ \E agent \in {Agent(st, heapAgent.Logs) : st \in Statuses \ {heapAgent.Status}}
                  \cup {Agent(heapAgent.Status, Append(heapAgent.Logs, l)) :
                           l \in IF Len(heapAgent.Logs) < MaxLogs THEN LogLevels ELSE {}} :
          heapAgent' = agent /\ written' = agent
    /\ UNCHANGED returned

\* the caller assigns the Status of a value it was handed, or an element
\* of its Logs
CallerWrite ==
    /\ \E i \in 1..Len(returned) :
         \E agent \in {Agent(st, view(returned[i]).Logs) : st \in Statuses}
                       \cup {Agent(view(returned[i]).Status,
                                   [view(returned[i]).Logs EXCEPT ![1] = l]) : l \in LogLevels} :
            /\ agent # view(returned[i])
            /\ returned' = [returned EXCEPT ![i].seen = agent,
                                            ![i].own = IF returned[i].shared THEN @ ELSE agent]
            /\ heapAgent' = IF returned[i].shared THEN agent ELSE heapAgent
    /\ UNCHANGED written

\* ------------------------------------------------------------------------
\* The conversation history of one agent and the context built from it
\* ------------------------------------------------------------------------
Entry(speaker, message) == [speaker |-> speaker, message |-> message]

ContextIdle == appended = << >> /\ builtContext = << >> /\ contextFrom = << >>

\* the history after n utterances of a meeting
Earlier(n) == [i \in 1..n |-> Entry(IF i % 2 = 1 THEN "Alice" ELSE "Assistant", <<"said", i>>)]

ContextSpeakers == {"Bob", "Assistant"}

ContextMessages == {<<"hi">>, <<"hello", " ", "there">>}

\* strings.Join(lines, "\n"), a line being fmt.Sprintf("%s: %s", ...)
RECURSIVE contextLines(_)
contextLines(entries) ==
    IF entries = << >> THEN << >>
    ELSE (<<Head(entries).speaker, ": ">> \o Head(entries).message)
         \o (IF Len(entries) > 1 THEN <<"\n">> ELSE << >>)
         \o contextLines(Tail(entries))

ContextEntries == 10

getConversationContextWrong(history) ==
    IF history = << >> THEN <<"No previous context.">>
    ELSE contextLines(SubSeq(history, 1, IF Len(history) < ContextEntries
                                         THEN Len(history) ELSE ContextEntries))

\* getConversationContext: the last 10 entries, one line each
getConversationContext(history) ==
    IF history = << >> THEN <<"No previous context.">>
    ELSE LET startIdx == IF Len(history) - ContextEntries < 0 THEN 0
                         ELSE Len(history) - ContextEntries
         IN contextLines(SubSeq(history, startIdx + 1, Len(history)))

\* the number of entries appended since the initial state
nAppends == Len(SelectSeq(appended, LAMBDA e : e.message[1] # "said"))

\* m.updateConversationContext(agentID, speaker, message)
ContextUpdate ==
    /\ \E speaker \in ContextSpeakers, message \in ContextMessages :
          /\ conversationHistory' =
                updateConversationContext(conversationHistory, speaker, message)
          /\ appended' = Append(appended, Entry(speaker, message))
    /\ UNCHANGED <<builtContext, contextFrom>>

\* m.getConversationContext(agentID)
ContextGet ==
    /\ builtContext' = getConversationContext(conversationHistory)
    /\ contextFrom' = conversationHistory
    /\ UNCHANGED <<appended, conversationHistory>>

\* ------------------------------------------------------------------------
\* One AnalystAgent (silent-analysis mode).  A string is the sequence of
\* its characters.  A segment carries a speaker ("" when the key is absent
\* or empty) and a text (<< >> likewise); ProcessUtterance runs under
\* dataMutex, so a call is one step.  updateAnalysis, which the call may
\* start, and saveAnalysis read Transcript and Participants and write
\* neither.
\* ------------------------------------------------------------------------
SegSpeakers == {"", "Alice", "Bob"}
SegTexts == {<< >>, <<"a">>, <<"b">>}
AnalystSegs == [speaker : SegSpeakers, text : SegTexts]

AnalystNew ==
    /\ Transcript = << >>
    /\ Participants = << >>
    /\ WordCount = 0
    /\ handed = << >>
    /\ nCalls = 0

AnalystIdle == AnalystNew

\* the loop of ProcessUtterance over the segments: the last non-empty
\* speaker wins, and a non-empty text is written after a space unless it
\* belongs to the first segment
RECURSIVE extract(_, _, _, _)
extract(segments, i, speaker, fullText) ==
    IF i > Len(segments) THEN [speaker |-> speaker, text |-> fullText]
    ELSE LET segment == segments[i]
             sp == IF segment.speaker # "" THEN segment.speaker ELSE speaker
             tx == IF segment.text # << >>
                   THEN (IF i > 1 THEN fullText \o <<" ">> ELSE fullText)
                        \o segment.text
                   ELSE fullText
         IN extract(segments, i + 1, sp, tx)

\* len(strings.Fields(s))
Fields(s) ==
    Cardinality({i \in 1..Len(s) : s[i] # " " /\ (i = 1 \/ s[i - 1] = " ")})

updateParticipantsWrong(ps, speaker) == Append(ps, speaker)

updateParticipants(ps, speaker) ==
    IF \E i \in 1..Len(ps) : ps[i] = speaker THEN ps ELSE Append(ps, speaker)

\* what the caller handed over, told apart from what the loop builds: the
\* speaker of the last segment that names one, and the words of the
\* segments in order
SpeakerOf(segments) ==
    LET named == {i \in 1..Len(segments) : segments[i].speaker # ""}
    IN IF named = {} THEN "Participant"
       ELSE segments[CHOOSE i \in named : \A j \in named : j <= i].speaker

RECURSIVE WordsOf(_)
WordsOf(segments) ==
    IF segments = << >> THEN << >>
    ELSE Head(segments).text \o WordsOf(Tail(segments))

ProcessUtterance(segments) ==
    /\ nCalls < MaxCalls
    /\ nCalls' = nCalls + 1
    /\ IF Len(segments) = 0
       THEN UNCHANGED <<Transcript, Participants, WordCount, handed>>
       ELSE LET e == extract(segments, 1, "Participant", << >>)
            IN IF e.text = << >>
               THEN UNCHANGED <<Transcript, Participants, WordCount, handed>>
               ELSE /\ Transcript' = Append(Transcript,
                                            [Speaker |-> e.speaker, Text |-> e.text])
                    /\ Participants' = updateParticipants(Participants, e.speaker)
                    /\ WordCount' = WordCount + Fields(e.text)
                    /\ handed' = Append(handed,
                                           [Speaker |-> SpeakerOf(segments),
                                            Words |-> WordsOf(segments)])

\* ------------------------------------------------------------------------
\* The websocket Hub.  A channel is the sequence of its buffered values;
\* SendCap and ChanCap stand for the buffer sizes (256 in NewHub and
\* ServeWs).  A subscriber is a *Client; s1 and s2 listen to agent a1, s3
\* is a session-wide connection.  A send on a closed channel and a second
\* close of a channel panic, which ends the process.
\* ------------------------------------------------------------------------
Min(a, b) == IF a < b THEN a ELSE b

Known(f, id) == id \in DOMAIN f

Remove(f, id) == [x \in DOMAIN f \ {id} |-> f[x]]

Put(f, id, v) == [x \in DOMAIN f \cup {id} |-> IF x = id THEN v ELSE f[x]]

Subs == {"s1", "s2", "s3"}

HubAgents == {"a1", "a2"}

isSession(c) == c = "s3"

agentOf(c) == "a1"

HubNew ==
    /\ hubRunning = FALSE
    /\ hubLoop = "none"
    /\ chClosed = FALSE
    /\ hubClients = {}
    /\ clientsByAgent = << >>
    /\ sessionClients = {}
    /\ broadcastCh = << >>
    /\ registerCh = << >>
    /\ unregisterCh = << >>
    /\ send = [c \in Subs |-> << >>]
    /\ sendClosed = [c \in Subs |-> 0]
    /\ spc = [c \in Subs |-> "new"]
    /\ pubPending = << >>
    /\ nPublished = 0
    /\ hubPanic = "none"

HubIdle == HubNew

\* Hub.Start: the dispatch goroutine is started once
HubStart ==
    /\ hubPanic = "none"
    /\ ~chClosed
    /\ IF hubRunning
       THEN UNCHANGED <<hubRunning, hubLoop>>
       ELSE hubRunning' = TRUE /\ hubLoop' = "running"
    /\ UNCHANGED <<chClosed, hubClients, clientsByAgent, sessionClients, broadcastCh,
                   registerCh, unregisterCh, send, sendClosed, spc, pubPending,
                   nPublished, hubPanic>>

\* Hub.Stop: the three channels are closed
HubStop ==
    /\ hubPanic = "none"
    /\ hubRunning
    /\ hubRunning' = FALSE
    /\ chClosed' = TRUE
    /\ UNCHANGED <<hubLoop, hubClients, clientsByAgent, sessionClients, broadcastCh,
                   registerCh, unregisterCh, send, sendClosed, spc, pubPending,
                   nPublished, hubPanic>>

\* ServeWs / ServeSessionWs: h.register <- client, then the two pumps start.
\* The send blocks while the buffer is full and panics on a closed channel.
ServeWs(c) ==
    /\ hubPanic = "none"
    /\ spc[c] = "new"
    /\ IF chClosed
       THEN hubPanic' = "register" /\ UNCHANGED <<registerCh, spc>>
       ELSE /\ Len(registerCh) < ChanCap
            /\ registerCh' = Append(registerCh, c)
            /\ spc' = [spc EXCEPT ![c] = "open"]
            /\ UNCHANGED hubPanic
    /\ UNCHANGED <<hubRunning, hubLoop, chClosed, hubClients, clientsByAgent,
                   sessionClients, broadcastCh, unregisterCh, send, sendClosed,
                   pubPending, nPublished>>

\* readPump ends (the connection failed or was closed): c.hub.unregister <- c
readPump(c) ==
    /\ hubPanic = "none"
    /\ spc[c] = "open"
    /\ IF chClosed
       THEN hubPanic' = "unregister" /\ UNCHANGED <<unregisterCh, spc>>
       ELSE /\ Len(unregisterCh) < ChanCap
            /\ unregisterCh' = Append(unregisterCh, c)
            /\ spc' = [spc EXCEPT ![c] = "closed"]
            /\ UNCHANGED hubPanic
    /\ UNCHANGED <<hubRunning, hubLoop, chClosed, hubClients, clientsByAgent,
                   sessionClients, broadcastCh, registerCh, send, sendClosed,
                   pubPending, nPublished>>

\* writePump: one message is taken from c.send and written to the peer
writePump(c) ==
    /\ hubPanic = "none"
    /\ spc[c] # "new"
    /\ send[c] # << >>
    /\ send' = [send EXCEPT ![c] = Tail(@)]
    /\ UNCHANGED <<hubRunning, hubLoop, chClosed, hubClients, clientsByAgent,
                   sessionClients, broadcastCh, registerCh, unregisterCh, sendClosed,
                   spc, pubPending, nPublished, hubPanic>>

\* run, case <-h.register
RunRegister ==
    /\ hubPanic = "none"
    /\ hubLoop = "running"
    /\ registerCh # << >>
    /\ LET client == Head(registerCh)
       IN /\ registerCh' = Tail(registerCh)
          /\ hubClients' = hubClients \cup {client}
          /\ IF isSession(client)
             THEN /\ sessionClients' = sessionClients \cup {client}
                  /\ UNCHANGED clientsByAgent
             ELSE /\ clientsByAgent' =
                       Put(clientsByAgent, agentOf(client),
                           (IF Known(clientsByAgent, agentOf(client))
                            THEN clientsByAgent[agentOf(client)] ELSE {}) \cup {client})
                  /\ UNCHANGED sessionClients
    /\ UNCHANGED <<hubRunning, hubLoop, chClosed, broadcastCh, unregisterCh, send,
                   sendClosed, spc, pubPending, nPublished, hubPanic>>

\* run, case <-h.unregister
RunUnregister ==
    /\ hubPanic = "none"
    /\ hubLoop = "running"
    /\ unregisterCh # << >>
    /\ LET client == Head(unregisterCh)
       IN /\ unregisterCh' = Tail(unregisterCh)
          /\ IF client \in hubClients
             THEN /\ hubClients' = hubClients \ {client}
                  /\ sendClosed' = [sendClosed EXCEPT ![client] = @ + 1]
                  /\ hubPanic' = IF sendClosed[client] > 0 THEN "close" ELSE "none"
             ELSE UNCHANGED <<hubClients, sendClosed, hubPanic>>
          /\ IF isSession(client)
             THEN /\ sessionClients' = sessionClients \ {client}
                  /\ UNCHANGED clientsByAgent
             ELSE /\ clientsByAgent' =
                       IF Known(clientsByAgent, agentOf(client))
                       THEN IF clientsByAgent[agentOf(client)] \ {client} = {}
                            THEN Remove(clientsByAgent, agentOf(client))
                            ELSE [clientsByAgent EXCEPT ![agentOf(client)] = @ \ {client}]
                       ELSE clientsByAgent
                  /\ UNCHANGED sessionClients
    /\ UNCHANGED <<hubRunning, hubLoop, chClosed, broadcastCh, registerCh, send,
                   spc, pubPending, nPublished>>

queueFullWrong(q) == Len(q) > SendCap

\* select { case client.send <- message: default: ... }: the default branch
\* is taken when the buffer of client.send is full
queueFull(q) == Len(q) >= SendCap

targetsOfWrong(message) == hubClients

\* the subscribers the broadcast case walks over for a message
targetsOf(message) ==
    (IF Known(clientsByAgent, message[1]) THEN clientsByAgent[message[1]] ELSE {})
        \cup sessionClients

\* run, case <-h.broadcast: the message goes to the clients of its agent and
\* to the session clients; a client whose queue is full is closed and deleted
RunBroadcast ==
    /\ hubPanic = "none"
    /\ hubLoop = "running"
    /\ broadcastCh # << >>
    /\ LET message == Head(broadcastCh)
           targets == targetsOf(message)
           dropped == {c \in targets : queueFull(send[c])}
       IN /\ broadcastCh' = Tail(broadcastCh)
          /\ send' = [c \in Subs |-> IF c \in targets \ dropped
                                     THEN Append(send[c], message) ELSE send[c]]
          /\ sendClosed' = [c \in Subs |-> IF c \in dropped THEN sendClosed[c] + 1
                                           ELSE sendClosed[c]]
          /\ hubClients' = hubClients \ dropped
          /\ clientsByAgent' = [a \in DOMAIN clientsByAgent |->
                                   IF a = message[1] THEN clientsByAgent[a] \ dropped
                                   ELSE clientsByAgent[a]]
          /\ sessionClients' = sessionClients \ dropped
          /\ hubPanic' = IF \E c \in targets : sendClosed[c] > 0 THEN "send" ELSE "none"
    /\ UNCHANGED <<hubRunning, hubLoop, chClosed, registerCh, unregisterCh, spc,
                   pubPending, nPublished>>

\* Hub.Broadcast: the message goes to every client of h.clients; a client
\* whose queue is full is closed and deleted from h.clients, and from no
\* other registry
HubBroadcast ==
    /\ hubPanic = "none"
    /\ nPublished < MaxBroadcasts
    /\ nPublished' = nPublished + 1
    /\ LET message == <<"all", nPublished + 1>>
           dropped == {c \in hubClients : queueFull(send[c])}
       IN /\ send' = [c \in Subs |-> IF c \in hubClients \ dropped
                                     THEN Append(send[c], message) ELSE send[c]]
          /\ sendClosed' = [c \in Subs |-> IF c \in dropped THEN sendClosed[c] + 1
                                           ELSE sendClosed[c]]
          /\ hubClients' = hubClients \ dropped
          /\ hubPanic' = IF \E c \in hubClients : sendClosed[c] > 0 THEN "send"
                         ELSE "none"
    /\ UNCHANGED <<hubRunning, hubLoop, chClosed, clientsByAgent, sessionClients,
                   broadcastCh, registerCh, unregisterCh, spc, pubPending>>

\* run: a receive from a closed and drained channel returns !ok
RunExit ==
    /\ hubPanic = "none"
    /\ hubLoop = "running"
    /\ chClosed
    /\ registerCh = << >> \/ unregisterCh = << >> \/ broadcastCh = << >>
    /\ hubLoop' = "exited"
    /\ UNCHANGED <<hubRunning, chClosed, hubClients, clientsByAgent, sessionClients,
                   broadcastCh, registerCh, unregisterCh, send, sendClosed, spc,
                   pubPending, nPublished, hubPanic>>

\* BroadcastToAgent, the read of h.running (no lock is taken)
BroadcastToAgentCheck(agent) ==
    /\ hubPanic = "none"
    /\ pubPending = << >>
    /\ nPublished < MaxBroadcasts
    /\ nPublished' = nPublished + 1
    /\ pubPending' = IF hubRunning THEN << <<agent, nPublished + 1>> >> ELSE << >>
    /\ UNCHANGED <<hubRunning, hubLoop, chClosed, hubClients, clientsByAgent,
                   sessionClients, broadcastCh, registerCh, unregisterCh, send,
                   sendClosed, spc, hubPanic>>

\* BroadcastToAgent, the non-blocking send: the message is dropped when the
\* buffer of h.broadcast is full
BroadcastToAgentSend ==
    /\ hubPanic = "none"
    /\ pubPending # << >>
    /\ pubPending' = << >>
    /\ IF chClosed
       THEN hubPanic' = "broadcast" /\ UNCHANGED broadcastCh
       ELSE /\ broadcastCh' = IF Len(broadcastCh) < ChanCap
                              THEN Append(broadcastCh, pubPending[1]) ELSE broadcastCh
            /\ UNCHANGED hubPanic
    /\ UNCHANGED <<hubRunning, hubLoop, chClosed, hubClients, clientsByAgent,
                   sessionClients, registerCh, unregisterCh, send, sendClosed, spc,
                   nPublished>>

\* ------------------------------------------------------------------------
\* The agent manager: agents, their workers and their clients.
\* A handler holds m.mu from entry to return, so its body is one step; a
\* worker goroutine is one step per critical section or unlocked call.
\* A log buffer is represented by its length; a client and the cancel
\* function of an agent context are named by the worker that owns them.
\* ------------------------------------------------------------------------
Configs == {[MeetingURL |-> "m1", AutoJoin |-> TRUE],
            [MeetingURL |-> "m2", AutoJoin |-> FALSE]}

ManagerNew ==
    /\ running = FALSE
    /\ ctxCancelled = FALSE
    /\ agents = << >>
    /\ clients = << >>
    /\ agentContexts = << >>
    /\ logBuffers = << >>
    /\ meetings = << >>
    /\ workers = << >>
    /\ nextId = 1
    /\ result = ""
    /\ statusEvents = << >>
    /\ stopReturned = {}
    /\ stopPc = "idle"

ManagerIdle == ManagerNew

\* addLogEntryUnsafe: the buffer of agentID grows by one entry and keeps the
\* last LogBufferSize; a missing buffer is created
logBufferAdd(bufs, agentID) ==
    Put(bufs, agentID, Min((IF Known(bufs, agentID) THEN bufs[agentID] ELSE 0) + 1,
                           LogBufferSize))

\* addLogEntryUnsafe: agent.Logs keeps the last AgentLogs entries; LastLevel
\* is the level of the newest one
agentLogAddLevel(ags, agentID, level) ==
    IF Known(ags, agentID)
    THEN [ags EXCEPT ![agentID].Logs = Min(@ + 1, AgentLogs),
                     ![agentID].LastLevel = level]
    ELSE ags

agentLogAdd(ags, agentID) == agentLogAddLevel(ags, agentID, "info")

\* updateAgentStatusUnsafe: the status is written and broadcast only when
\* the agent exists and its status differs
updateAgentStatusUnsafe(ags, agentID, status) ==
    IF Known(ags, agentID) /\ ags[agentID].Status # status
    THEN [ags EXCEPT ![agentID].Status = status]
    ELSE ags

broadcastStatus(events, ags, agentID, status) ==
    IF Known(ags, agentID) /\ ags[agentID].Status # status
    THEN Append(events, <<agentID, status>>)
    ELSE events

handleAgentErrorUnsafeWrong(ags, agentID) ==
    IF Known(ags, agentID)
    THEN agentLogAddLevel([ags EXCEPT ![agentID].ErrorMsg = TRUE], agentID, "error")
    ELSE ags

\* handleAgentErrorUnsafe: ErrorMsg set, status error, one log entry of
\* level error; nothing for an agent that no longer exists
handleAgentErrorUnsafe(ags, agentID) ==
    IF Known(ags, agentID)
    THEN agentLogAddLevel([ags EXCEPT ![agentID].ErrorMsg = TRUE,
                                      ![agentID].Status = "error"], agentID, "error")
    ELSE ags

errorLog(bufs, ags, agentID) ==
    IF Known(ags, agentID) THEN logBufferAdd(bufs, agentID) ELSE bufs

\* cancelFunc() of an agent context: the worker that waits on it is released
cancelWorker(ws, w) == [ws EXCEPT ![w].ctxDone = TRUE]

\* JoinlyClient.Stop() on the client of worker w
clientStop(ws, w) ==
    IF ws[w].isRunning
    THEN [ws EXCEPT ![w].isRunning = FALSE, ![w].isJoined = FALSE,
                    ![w].isConnected = FALSE]
    ELSE ws

capacityReachedWrong(n) == n > MaxAgents

\* len(m.agents) >= m.config.Joinly.MaxAgents
capacityReached(n) == n >= MaxAgents

\* Start; main calls it once, before the router is set up, and calls Stop
\* once, at shutdown
ManagerStart ==
    /\ ~ctxCancelled
    /\ running' = TRUE
    /\ result' = ""
    /\ UNCHANGED <<ctxCancelled, stopPc, agents, clients, agentContexts, logBuffers,
                   meetings, workers, nextId, statusEvents, stopReturned>>

cancelAllWrong(ws) == ws

\* m.cancel(): every agent context is derived from m.ctx and ends with it
cancelAll(ws) == [w \in DOMAIN ws |-> [ws[w] EXCEPT !.ctxDone = TRUE]]

\* Stop up to the release of m.mu: m.cancel() ends every agent context
ManagerStop ==
    /\ IF ~running
       THEN UNCHANGED <<running, ctxCancelled, stopPc, workers>>
       ELSE /\ running' = FALSE
            /\ ctxCancelled' = TRUE
            /\ stopPc' = "waiting"
            /\ workers' = cancelAll(workers)
    /\ result' = ""
    /\ UNCHANGED <<agents, clients, agentContexts, logBuffers, meetings, nextId,
                   statusEvents, stopReturned>>

\* the counter of m.wg: the workers that have not returned
wgCount == Cardinality({w \in DOMAIN workers : workers[w].pc # "exited"})

\* Stop after the release of m.mu: m.wg.Wait() returns once no worker is
\* left, and Stop returns
ManagerStopReturn ==
    /\ stopPc = "waiting"
    /\ wgCount = 0
    /\ stopPc' = "returned"
    /\ result' = ""
    /\ UNCHANGED <<running, ctxCancelled, agents, clients, agentContexts, logBuffers,
                   meetings, workers, nextId, statusEvents, stopReturned>>

CreateAgent(config) ==
    IF ~running
    THEN /\ result' = "not running"
         /\ UNCHANGED <<running, ctxCancelled, stopPc, agents, clients, agentContexts, logBuffers,
                        meetings, workers, nextId, statusEvents, stopReturned>>
    ELSE IF capacityReached(Cardinality(DOMAIN agents))
    THEN /\ result' = "capacity"
         /\ UNCHANGED <<running, ctxCancelled, stopPc, agents, clients, agentContexts, logBuffers,
                        meetings, workers, nextId, statusEvents, stopReturned>>
    ELSE /\ nextId <= MaxCreates
         /\ LET agentID == nextId
                meetingURL == config.MeetingURL
                created == Put(agents, agentID,
                               [Status |-> "created", Config |-> config, Logs |-> 0,
                                ErrorMsg |-> FALSE, LastLevel |-> "none"])
                meeting == IF Known(meetings, meetingURL) THEN meetings[meetingURL]
                           ELSE [AgentIDs |-> << >>, AgentCount |-> 0]
            IN /\ agents' = agentLogAdd(created, agentID)
               /\ logBuffers' = logBufferAdd(Put(logBuffers, agentID, 0), agentID)
               /\ meetings' = Put(meetings, meetingURL,
                                  [AgentIDs |-> Append(meeting.AgentIDs, agentID),
                                   AgentCount |-> meeting.AgentCount + 1])
               /\ nextId' = nextId + 1
         /\ result' = ""
         /\ UNCHANGED <<running, ctxCancelled, stopPc, clients, agentContexts, workers,
                        statusEvents, stopReturned>>

noAgentsLeftWrong(agentCount) == FALSE

\* meeting.AgentCount == 0 after the decrement
noAgentsLeft(agentCount) == agentCount = 0

RemoveFirst(seq, x) ==
    LET idx == {i \in 1..Len(seq) : seq[i] = x}
    IN IF idx = {} THEN seq
       ELSE LET i == CHOOSE j \in idx : \A k \in idx : j <= k
            IN SubSeq(seq, 1, i - 1) \o SubSeq(seq, i + 1, Len(seq))

\* stopAgent for an existing agent that is not stopped: status stopping, the
\* agent context cancelled and forgotten, the registered client stopped and
\* forgotten, status stopped
stopAgent(agentID) ==
    LET ws1 == IF Known(agentContexts, agentID)
               THEN cancelWorker(workers, agentContexts[agentID]) ELSE workers
        ws2 == IF Known(clients, agentID) THEN clientStop(ws1, clients[agentID]) ELSE ws1
    IN [agents |-> [agents EXCEPT ![agentID].Status = "stopped"],
        agentContexts |-> Remove(agentContexts, agentID),
        clients |-> Remove(clients, agentID),
        workers |-> ws2]

StopAgent(agentID) ==
    IF ~Known(agents, agentID)
    THEN /\ result' = ""
         /\ UNCHANGED <<running, ctxCancelled, stopPc, agents, clients, agentContexts, logBuffers,
                        meetings, workers, nextId, statusEvents, stopReturned>>
    ELSE /\ IF agents[agentID].Status = "stopped"
            THEN UNCHANGED <<agents, clients, agentContexts, workers>>
            ELSE LET s == stopAgent(agentID)
                 IN /\ agents' = s.agents
                    /\ agentContexts' = s.agentContexts
                    /\ clients' = s.clients
                    /\ workers' = s.workers
         /\ result' = ""
         /\ stopReturned' = stopReturned \cup {agentID}
         /\ UNCHANGED <<running, ctxCancelled, stopPc, logBuffers, meetings, nextId, statusEvents>>

DeleteAgent(agentID) ==
    IF ~Known(agents, agentID)
    THEN /\ result' = ""
         /\ UNCHANGED <<running, ctxCancelled, stopPc, agents, clients, agentContexts, logBuffers,
                        meetings, workers, nextId, statusEvents, stopReturned>>
    ELSE LET stop == agents[agentID].Status = "running"
             s == stopAgent(agentID)
             meetingURL == agents[agentID].Config.MeetingURL
             meeting == meetings[meetingURL]
         IN /\ agents' = Remove(agents, agentID)
            /\ clients' = Remove(clients, agentID)
            /\ logBuffers' = Remove(logBuffers, agentID)
            /\ agentContexts' = IF stop THEN s.agentContexts ELSE agentContexts
            /\ workers' = IF stop THEN s.workers ELSE workers
            /\ meetings' =
                 IF ~Known(meetings, meetingURL) THEN meetings
                 ELSE IF noAgentsLeft(meeting.AgentCount - 1) THEN Remove(meetings, meetingURL)
                 ELSE Put(meetings, meetingURL,
                          [AgentIDs |-> RemoveFirst(meeting.AgentIDs, agentID),
                           AgentCount |-> meeting.AgentCount - 1])
            /\ result' = ""
            /\ stopReturned' = stopReturned \ {agentID}
            /\ UNCHANGED <<running, ctxCancelled, stopPc, nextId, statusEvents>>

\* StartAgent: status starting, a new client, a new agent context, and the
\* worker goroutine that will start the client
StartAgentWithin(agentID, maxStarts) ==
    IF ~Known(agents, agentID)
    THEN /\ result' = ""
         /\ UNCHANGED <<running, ctxCancelled, stopPc, agents, clients, agentContexts, logBuffers,
                        meetings, workers, nextId, statusEvents, stopReturned>>
    ELSE IF agents[agentID].Status = "running"
    THEN /\ result' = ""
         /\ UNCHANGED <<running, ctxCancelled, stopPc, agents, clients, agentContexts, logBuffers,
                        meetings, workers, nextId, statusEvents, stopReturned>>
    ELSE /\ Len(workers) < maxStarts
         /\ agents' = agentLogAdd([agents EXCEPT ![agentID].Status = "starting"], agentID)
         /\ logBuffers' = logBufferAdd(logBuffers, agentID)
         /\ workers' = Append(workers,
                              [agent |-> agentID, pc |-> "connecting",
                               AutoJoin |-> agents[agentID].Config.AutoJoin,
                               isRunning |-> FALSE, isConnected |-> FALSE,
                               isJoined |-> FALSE, ctxDone |-> ctxCancelled])
         /\ agentContexts' = Put(agentContexts, agentID, Len(workers) + 1)
         /\ result' = ""
         /\ stopReturned' = stopReturned \ {agentID}
         /\ UNCHANGED <<running, ctxCancelled, stopPc, clients, meetings, nextId, statusEvents>>

StartAgent(agentID) == StartAgentWithin(agentID, MaxStarts)

\* worker: joinlyClient.Start() returns.  On an error: handleAgentErrorUnsafe
\* and the stored agent context cancelled and forgotten.  On success: the
\* client registered and agent.Status written through the captured pointer.
WorkerClientStart(w) ==
    /\ workers[w].pc = "connecting"
    /\ LET agentID == workers[w].agent
       IN \E ok \in BOOLEAN :
            IF ok
            THEN /\ workers' = [workers EXCEPT ![w].pc = "registered",
                                               ![w].isRunning = TRUE,
                                               ![w].isConnected = TRUE]
                 /\ clients' = Put(clients, agentID, w)
                 /\ agents' = IF Known(agents, agentID)
                              THEN [agents EXCEPT ![agentID].Status = "running"]
                              ELSE agents
                 /\ UNCHANGED <<agentContexts, logBuffers>>
            ELSE /\ agents' = handleAgentErrorUnsafe(agents, agentID)
                 /\ logBuffers' = errorLog(logBuffers, agents, agentID)
                 /\ workers' = [(IF Known(agentContexts, agentID)
                                 THEN cancelWorker(workers, agentContexts[agentID])
                                 ELSE workers) EXCEPT ![w].pc = "exited"]
                 /\ agentContexts' = Remove(agentContexts, agentID)
                 /\ UNCHANGED clients
    /\ result' = ""
    /\ UNCHANGED <<running, ctxCancelled, stopPc, meetings, nextId, statusEvents,
                   stopReturned>>

\* worker, m.mu not held: updateAgentStatusUnsafe(agentID, running) and
\* addLogEntry(agentID, "Agent started successfully")
WorkerStatusUpdate(w) ==
    /\ workers[w].pc = "registered"
    /\ LET agentID == workers[w].agent
           updated == updateAgentStatusUnsafe(agents, agentID, "running")
       IN /\ agents' = agentLogAdd(updated, agentID)
          /\ statusEvents' = broadcastStatus(statusEvents, agents, agentID, "running")
          /\ logBuffers' = logBufferAdd(logBuffers, agentID)
    /\ workers' = [workers EXCEPT ![w].pc = IF workers[w].AutoJoin THEN "joining"
                                            ELSE "waiting"]
    /\ result' = ""
    /\ UNCHANGED <<running, ctxCancelled, stopPc, clients, agentContexts, meetings,
                   nextId, stopReturned>>

\* worker: joinlyClient.JoinMeeting(); on an error handleAgentError and
\* return, otherwise a log entry.  A panic is recovered by the deferred
\* function: handleAgentErrorUnsafe, and the stored agent context cancelled
\* and forgotten.
WorkerJoin(w) ==
    /\ workers[w].pc = "joining"
    /\ LET agentID == workers[w].agent
       IN \E outcome \in {"ok", "error", "panic"} :
            IF workers[w].isConnected /\ ~workers[w].isJoined /\ outcome = "ok"
            THEN /\ workers' = [workers EXCEPT ![w].pc = "waiting", ![w].isJoined = TRUE]
                 /\ agents' = agentLogAdd(agents, agentID)
                 /\ logBuffers' = logBufferAdd(logBuffers, agentID)
                 /\ UNCHANGED agentContexts
            ELSE IF outcome = "panic"
            THEN /\ agents' = handleAgentErrorUnsafe(agents, agentID)
                 /\ logBuffers' = errorLog(logBuffers, agents, agentID)
                 /\ workers' = [(IF Known(agentContexts, agentID)
                                 THEN cancelWorker(workers, agentContexts[agentID])
                                 ELSE workers) EXCEPT ![w].pc = "exited"]
                 /\ agentContexts' = Remove(agentContexts, agentID)
            ELSE /\ workers' = [workers EXCEPT ![w].pc = "exited"]
                 /\ agents' = handleAgentErrorUnsafe(agents, agentID)
                 /\ logBuffers' = errorLog(logBuffers, agents, agentID)
                 /\ UNCHANGED agentContexts
    /\ result' = ""
    /\ UNCHANGED <<running, ctxCancelled, stopPc, clients, meetings, nextId,
                   statusEvents, stopReturned>>

\* worker: <-agentCtx.Done()
WorkerExit(w) ==
    /\ workers[w].pc = "waiting"
    /\ workers[w].ctxDone
    /\ workers' = [workers EXCEPT ![w].pc = "exited"]
    /\ result' = ""
    /\ UNCHANGED <<running, ctxCancelled, stopPc, agents, clients, agentContexts,
                   logBuffers, meetings, nextId, statusEvents, stopReturned>>

\* the agent ids handed out so far; callers know no other id
IssuedIds == 1..(nextId - 1)

\* the router serves requests once Start has been called
serving == running \/ ctxCancelled

nonManagerVars == <<compactVars, clientVars, taskVars, hubVars, cancelVars,
    analystVars, lockVars, returnVars, contextVars>>

Init == ManagerNew /\ CompactIdle /\ ClientIdle /\ TaskIdle /\ HubIdle
        /\ CancelIdle
        /\ AnalystIdle
        /\ ContextIdle
        /\ ReturnIdle
        /\ LockIdle
        /\ conversationMode = "conversational"

Next ==
    \/ ManagerStart /\ UNCHANGED nonManagerVars
    \/ ManagerStop /\ UNCHANGED nonManagerVars
    \/ ManagerStopReturn /\ UNCHANGED nonManagerVars
    \/ serving /\ \E config \in Configs : CreateAgent(config) /\ UNCHANGED nonManagerVars
    \/ serving /\ \E id \in IssuedIds : StartAgent(id) /\ UNCHANGED nonManagerVars
    \/ serving /\ \E id \in IssuedIds : StopAgent(id) /\ UNCHANGED nonManagerVars
    \/ serving /\ \E id \in IssuedIds : DeleteAgent(id) /\ UNCHANGED nonManagerVars
    \/ \E w \in DOMAIN workers : WorkerClientStart(w) /\ UNCHANGED nonManagerVars
    \/ \E w \in DOMAIN workers : WorkerStatusUpdate(w) /\ UNCHANGED nonManagerVars
    \/ \E w \in DOMAIN workers : WorkerJoin(w) /\ UNCHANGED nonManagerVars
    \/ \E w \in DOMAIN workers : WorkerExit(w) /\ UNCHANGED nonManagerVars

Spec == Init /\ [][Next]_vars

\* a step of worker w
WorkerStep(w) ==
    /\ w \in DOMAIN workers
    /\ \/ WorkerClientStart(w)
       \/ WorkerStatusUpdate(w)
       \/ WorkerJoin(w)
       \/ WorkerExit(w)
    /\ UNCHANGED nonManagerVars

\* the configuration used for the runs with fairness: an agent that joins
\* its meeting, which is the longest path of a worker
LiveConfigs == {[MeetingURL |-> "m1", AutoJoin |-> TRUE]}

NextLive ==
    \/ ManagerStart /\ UNCHANGED nonManagerVars
    \/ ManagerStop /\ UNCHANGED nonManagerVars
    \/ ManagerStopReturn /\ UNCHANGED nonManagerVars
    \/ serving /\ \E config \in LiveConfigs : CreateAgent(config) /\ UNCHANGED nonManagerVars
    \/ serving /\ \E id \in IssuedIds : StartAgent(id) /\ UNCHANGED nonManagerVars
    \/ serving /\ \E id \in IssuedIds : StopAgent(id) /\ UNCHANGED nonManagerVars
    \/ serving /\ \E id \in IssuedIds : DeleteAgent(id) /\ UNCHANGED nonManagerVars
    \/ \E w \in DOMAIN workers : WorkerStep(w)

\* the manager with an agent that is started more than once
RestartNext ==
    \/ ManagerStart /\ UNCHANGED nonManagerVars
    \/ ManagerStop /\ UNCHANGED nonManagerVars
    \/ ManagerStopReturn /\ UNCHANGED nonManagerVars
    \/ serving /\ \E config \in Configs : CreateAgent(config) /\ UNCHANGED nonManagerVars
    \/ serving /\ \E id \in IssuedIds :
           StartAgentWithin(id, MaxRestarts) /\ UNCHANGED nonManagerVars
    \/ serving /\ \E id \in IssuedIds : StopAgent(id) /\ UNCHANGED nonManagerVars
    \/ serving /\ \E id \in IssuedIds : DeleteAgent(id) /\ UNCHANGED nonManagerVars
    \/ \E w \in DOMAIN workers : WorkerClientStart(w) /\ UNCHANGED nonManagerVars
    \/ \E w \in DOMAIN workers : WorkerStatusUpdate(w) /\ UNCHANGED nonManagerVars
    \/ \E w \in DOMAIN workers : WorkerJoin(w) /\ UNCHANGED nonManagerVars
    \/ \E w \in DOMAIN workers : WorkerExit(w) /\ UNCHANGED nonManagerVars

InitRestart == Init

SpecRestart == InitRestart /\ [][RestartNext]_vars

InitLive == Init

\* Every worker goroutine that can take a step eventually takes one (the
\* calls joinlyClient.Start() and JoinMeeting() return), and so does the
\* goroutine inside Stop.
SpecLive ==
    /\ InitLive /\ [][NextLive]_vars
    /\ \A w \in 1..MaxStarts : WF_vars(WorkerStep(w))
    /\ WF_vars(ManagerStopReturn /\ UNCHANGED nonManagerVars)

nonTaskVars == <<compactVars, clientVars, managerVars, hubVars, cancelVars,
    analystVars, lockVars, returnVars, contextVars>>

TaskNext ==
    \E t \in TaskIds :
        \/ HandleCancel(t) /\ UNCHANGED nonTaskVars
        \/ HandleStore(t) /\ UNCHANGED nonTaskVars
        \/ TaskBegin(t) /\ UNCHANGED nonTaskVars
        \/ TaskRespond(t) /\ UNCHANGED nonTaskVars
        \/ TaskSpeak(t) /\ UNCHANGED nonTaskVars
        \/ TaskCleanup(t) /\ UNCHANGED nonTaskVars

InitTasks == TaskInit /\ CompactIdle /\ ClientIdle /\ ManagerIdle /\ HubIdle
             /\ CancelIdle
             /\ AnalystIdle
             /\ ContextIdle
             /\ ReturnIdle
             /\ LockIdle

SpecTasks == InitTasks /\ [][TaskNext]_vars

nonClientVars == <<compactVars, taskVars, managerVars, hubVars, cancelVars,
    analystVars, lockVars, returnVars, contextVars>>

nonCompactVars == <<clientVars, taskVars, managerVars, hubVars, cancelVars,
    analystVars, lockVars, returnVars, contextVars>>

ClientNext ==
    \/ ClientStart /\ UNCHANGED nonClientVars
    \/ JoinMeeting /\ UNCHANGED nonClientVars
    \/ ResourceUpdatedRead /\ UNCHANGED nonClientVars
    \/ ResourceUpdatedDeliver /\ UNCHANGED nonClientVars
    \/ PollRead /\ UNCHANGED nonClientVars
    \/ PollDeliver /\ UNCHANGED nonClientVars
    \/ handleAssistantSegments /\ UNCHANGED nonClientVars
    \/ TimerExpire /\ UNCHANGED nonClientVars
    \/ TimerFunc /\ UNCHANGED nonClientVars
    \/ CallbackRun /\ UNCHANGED nonClientVars
    \/ ClientStop /\ UNCHANGED nonClientVars

InitClient == ClientInit /\ CompactIdle /\ TaskIdle /\ ManagerIdle /\ HubIdle
              /\ CancelIdle
              /\ AnalystIdle
              /\ ContextIdle
              /\ ReturnIdle
              /\ LockIdle
              /\ conversationMode = "conversational"

SpecClient == InitClient /\ [][ClientNext]_vars

\* the transcript pipeline of the meeting NameScenario, three deliveries
NameNext ==
    \/ ClientStart /\ UNCHANGED nonClientVars
    \/ JoinMeeting /\ UNCHANGED nonClientVars
    \/ ResourceUpdatedRead /\ UNCHANGED nonClientVars
    \/ ResourceUpdatedDeliverWithin(MaxNameUpdates) /\ UNCHANGED nonClientVars
    \/ PollRead /\ UNCHANGED nonClientVars
    \/ PollDeliverWithin(MaxNameUpdates) /\ UNCHANGED nonClientVars
    \/ handleAssistantSegments /\ UNCHANGED nonClientVars
    \/ TimerExpire /\ UNCHANGED nonClientVars
    \/ TimerFunc /\ UNCHANGED nonClientVars
    \/ CallbackRun /\ UNCHANGED nonClientVars
    \/ ClientStop /\ UNCHANGED nonClientVars

InitName == ClientNew /\ nameTrigger \in BOOLEAN /\ universe = NameScenario
            /\ CompactIdle /\ TaskIdle /\ ManagerIdle /\ HubIdle
            /\ CancelIdle
            /\ AnalystIdle
            /\ ContextIdle
            /\ ReturnIdle
            /\ LockIdle
            /\ conversationMode = "conversational"

SpecName == InitName /\ [][NameNext]_vars

nonCancelVars == <<compactVars, clientVars, managerVars, hubVars, analystVars,
    lockVars, returnVars, contextVars>>

CancelNext ==
    \/ \E t \in TaskIds : HandleCancel(t) /\ UNCHANGED nonTaskVars
    \/ \E t \in TaskIds : HandleStore(t) /\ UNCHANGED nonTaskVars
    \/ \E t \in TaskIds : ~agentStopped /\ TaskBegin(t) /\ UNCHANGED nonTaskVars
    \/ \E t \in TaskIds : agentStopped /\ TaskBeginNoClient(t) /\ UNCHANGED nonTaskVars
    \/ \E t \in TaskIds : TaskRespond(t) /\ UNCHANGED nonTaskVars
    \/ \E t \in TaskIds : ~agentStopped /\ TaskSpeak(t) /\ UNCHANGED nonTaskVars
    \/ \E t \in TaskIds : agentStopped /\ TaskSpeakFails(t) /\ UNCHANGED nonTaskVars
    \/ \E t \in TaskIds : TaskCleanup(t) /\ UNCHANGED nonTaskVars
    \/ AgentStop /\ UNCHANGED nonCancelVars
    \/ SupervisorStop /\ UNCHANGED nonCancelVars

InitCancel == InitTasks /\ conversationMode = "conversational"

SpecCancel == InitCancel /\ [][CancelNext]_vars

\* the first MaxCheckpointTasks utterances of the agent, with StopAgent and
\* AgentManager.Stop
CheckpointIds == 1..MaxCheckpointTasks

CheckpointNext ==
    \/ \E t \in CheckpointIds : HandleCancel(t) /\ UNCHANGED nonTaskVars
    \/ \E t \in CheckpointIds : HandleStore(t) /\ UNCHANGED nonTaskVars
    \/ \E t \in CheckpointIds : ~agentStopped /\ TaskBegin(t) /\ UNCHANGED nonTaskVars
    \/ \E t \in CheckpointIds : agentStopped /\ TaskBeginNoClient(t) /\ UNCHANGED nonTaskVars
    \/ \E t \in CheckpointIds : TaskRespond(t) /\ UNCHANGED nonTaskVars
    \/ \E t \in CheckpointIds : ~agentStopped /\ TaskSpeak(t) /\ UNCHANGED nonTaskVars
    \/ \E t \in CheckpointIds : agentStopped /\ TaskSpeakFails(t) /\ UNCHANGED nonTaskVars
    \/ \E t \in CheckpointIds : TaskCleanup(t) /\ UNCHANGED nonTaskVars
    \/ AgentStop /\ UNCHANGED nonCancelVars
    \/ SupervisorStop /\ UNCHANGED nonCancelVars

InitCheckpoint == InitCancel

SpecCheckpoint == InitCheckpoint /\ [][CheckpointNext]_vars

CompactNext == Compact /\ UNCHANGED nonCompactVars

InitCompact == CompactInit /\ ClientIdle /\ TaskIdle /\ ManagerIdle /\ HubIdle
               /\ CancelIdle
               /\ AnalystIdle
               /\ ContextIdle
               /\ ReturnIdle
               /\ LockIdle
               /\ conversationMode = "conversational"

SpecCompact == InitCompact /\ [][CompactNext]_vars

nonHubVars == <<compactVars, clientVars, taskVars, managerVars, cancelVars,
    analystVars, lockVars, returnVars, contextVars>>

HubNext ==
    \/ HubStart /\ UNCHANGED nonHubVars
    \/ HubStop /\ UNCHANGED nonHubVars
    \/ \E c \in Subs : ServeWs(c) /\ UNCHANGED nonHubVars
    \/ \E c \in Subs : readPump(c) /\ UNCHANGED nonHubVars
    \/ \E c \in Subs : writePump(c) /\ UNCHANGED nonHubVars
    \/ RunRegister /\ UNCHANGED nonHubVars
    \/ RunUnregister /\ UNCHANGED nonHubVars
    \/ RunBroadcast /\ UNCHANGED nonHubVars
    \/ RunExit /\ UNCHANGED nonHubVars
    \/ \E agent \in HubAgents : BroadcastToAgentCheck(agent) /\ UNCHANGED nonHubVars
    \/ BroadcastToAgentSend /\ UNCHANGED nonHubVars

InitHub == HubNew /\ CompactIdle /\ ClientIdle /\ TaskIdle /\ ManagerIdle
           /\ CancelIdle
           /\ AnalystIdle
           /\ ContextIdle
           /\ ReturnIdle
           /\ LockIdle
           /\ conversationMode = "conversational"

SpecHub == InitHub /\ [][HubNext]_vars

\* the hub used through every exported method, Hub.Broadcast included
HubApiNext ==
    \/ HubNext
    \/ HubBroadcast /\ UNCHANGED nonHubVars

InitHubApi == InitHub

SpecHubApi == InitHubApi /\ [][HubApiNext]_vars

nonAnalystVars == <<compactVars, clientVars, taskVars, managerVars, hubVars,
                    cancelVars, lockVars, returnVars, contextVars>>

AnalystNext ==
    \E segments \in SeqsUpTo(AnalystSegs, MaxSegs) :
        ProcessUtterance(segments) /\ UNCHANGED nonAnalystVars

InitAnalyst == AnalystNew /\ CompactIdle /\ ClientIdle /\ TaskIdle /\ ManagerIdle
               /\ HubIdle
               /\ CancelIdle
               /\ LockIdle
               /\ ReturnIdle
               /\ ContextIdle
               /\ conversationMode = "analyst"

SpecAnalyst == InitAnalyst /\ [][AnalystNext]_vars

nonLockVars == <<compactVars, clientVars, taskVars, managerVars, hubVars,
                 cancelVars, analystVars,
    returnVars, contextVars>>

LockNext ==
    \/ \E g \in Goroutines : Begin(g) /\ UNCHANGED nonLockVars
    \/ \E g \in Goroutines : Lock(g) /\ UNCHANGED nonLockVars
    \/ \E g \in Goroutines : RLock(g) /\ UNCHANGED nonLockVars
    \/ \E g \in Goroutines : Unlock(g) /\ UNCHANGED nonLockVars
    \/ \E g \in Goroutines : RUnlock(g) /\ UNCHANGED nonLockVars
    \/ \E g \in Goroutines : Enter(g) /\ UNCHANGED nonLockVars
    \/ \E g \in Goroutines : Leave(g) /\ UNCHANGED nonLockVars

InitLocks == LockNew /\ CompactIdle /\ ClientIdle /\ TaskIdle /\ ManagerIdle
             /\ HubIdle
             /\ CancelIdle
             /\ AnalystIdle
             /\ ContextIdle
             /\ ReturnIdle
             /\ conversationMode = "conversational"

SpecLocks == InitLocks /\ [][LockNext]_vars

WaitNext ==
    \/ \E g \in Goroutines : BeginWait(g) /\ UNCHANGED nonLockVars
    \/ \E g \in Goroutines : Lock(g) /\ UNCHANGED nonLockVars
    \/ \E g \in Goroutines : RLock(g) /\ UNCHANGED nonLockVars
    \/ \E g \in Goroutines : Unlock(g) /\ UNCHANGED nonLockVars
    \/ \E g \in Goroutines : RUnlock(g) /\ UNCHANGED nonLockVars
    \/ \E g \in Goroutines : Enter(g) /\ UNCHANGED nonLockVars
    \/ \E g \in Goroutines : Leave(g) /\ UNCHANGED nonLockVars
    \/ \E g \in Goroutines : Wait(g) /\ UNCHANGED nonLockVars

\* a step of goroutine g once its function has begun
Proceed(g) ==
    (Lock(g) \/ RLock(g) \/ Unlock(g) \/ RUnlock(g) \/ Enter(g) \/ Leave(g) \/ Wait(g))
    /\ UNCHANGED nonLockVars

InitWait == InitLocks

\* a goroutine that can run does run, every call to the backend or the
\* model returns, and a goroutine that waits for a lock or for the wait
\* group gets it if it is free again and again (sync.Mutex hands a lock over
\* to a starving waiter, a waiting writer stops new readers)
SpecWait == InitWait /\ [][WaitNext]_vars /\ \A g \in Goroutines : SF_vars(Proceed(g))

nonReturnVars == <<compactVars, clientVars, taskVars, managerVars, hubVars, cancelVars,
    analystVars, lockVars,
    contextVars>>

ReturnNext ==
    \/ CreateAgentCall /\ UNCHANGED nonReturnVars
    \/ GetAgentCall /\ UNCHANGED nonReturnVars
    \/ ListAgentsCall /\ UNCHANGED nonReturnVars
    \/ SupervisorWrite /\ UNCHANGED nonReturnVars
    \/ CallerWrite /\ UNCHANGED nonReturnVars

InitReturn == ReturnNew /\ CompactIdle /\ ClientIdle /\ TaskIdle /\ ManagerIdle
              /\ HubIdle /\ CancelIdle /\ AnalystIdle /\ LockIdle /\ ContextIdle
              /\ conversationMode = "conversational"

SpecReturn == InitReturn /\ [][ReturnNext]_vars

\* the history of an agent that has heard up to MaxEntries utterances, then
\* MaxAppends more
ContextNext ==
    \/ /\ nAppends < MaxAppends
       /\ ContextUpdate
       /\ UNCHANGED <<compactVars, clientVars, managerVars, hubVars, cancelVars,
                      analystVars, lockVars, returnVars>>
       /\ UNCHANGED <<tpc, tokenCancelled, utteranceTasks, conversationMode,
                      analystTranscript, spoken, speakErrors, superseded>>
    \/ /\ ContextGet
       /\ UNCHANGED <<compactVars, clientVars, managerVars, hubVars, cancelVars,
                      analystVars, lockVars, returnVars>>
       /\ UNCHANGED <<tpc, tokenCancelled, utteranceTasks, conversationMode,
                      analystTranscript, spoken, speakErrors, superseded>>

InitContext ==
    /\ \E n \in 0..MaxEntries :
          conversationHistory = Earlier(n) /\ appended = Earlier(n)
    /\ builtContext = << >> /\ contextFrom = << >>
    /\ tpc = [t \in TaskIds |-> "none"]
    /\ tokenCancelled = [t \in TaskIds |-> FALSE]
    /\ utteranceTasks = 0
    /\ analystTranscript = << >> /\ spoken = << >> /\ speakErrors = {}
    /\ superseded = {}
    /\ CompactIdle /\ ClientIdle /\ ManagerIdle /\ HubIdle /\ CancelIdle
    /\ AnalystIdle /\ LockIdle /\ ReturnIdle
    /\ conversationMode = "conversational"

SpecContext == InitContext /\ [][ContextNext]_vars


\* ------------------------------------------------------------------------
\* Properties
\* ------------------------------------------------------------------------
InSeq(x, seq) == \E i \in 1..Len(seq) : seq[i] = x

\* C1 (as stated): in conversational mode, a task that was awaiting the
\* model call when handleUtterance ran for a newer utterance is cancelled,
\* never calls SpeakText and never appends its reply to the history.
C1_SupersededTaskSilent ==
    conversationMode = "conversational" =>
        \A u \in superseded :
            /\ tokenCancelled[u]
            /\ ~InSeq(u, spoken)
            /\ \A i \in 1..Len(conversationHistory) :
                 conversationHistory[i] # [speaker |-> "Assistant", message |-> <<"reply", u>>]

\* the started tasks that have not finished speaking
liveTasks == {t \in TaskIds : tpc[t] \in {"begin", "llm", "speak"}}

\* C2 (as stated): at every instant at most one response task exists whose
\* cancellation token is not cancelled.
C2_AtMostOneUncancelledTask ==
    Cardinality({t \in liveTasks : ~tokenCancelled[t]}) <= 1

\* the workers started for agent a
workersOf(a) == {w \in DOMAIN workers : workers[w].agent = a}

\* C3 (as stated): once StopAgent(id) has returned, and until the next
\* StartAgent(id), the status reads stopped, no client is registered for id,
\* and no client of id is connected or in a meeting.
C3_StoppedStaysStopped ==
    \A a \in stopReturned :
        Known(agents, a) =>
            /\ agents[a].Status = "stopped"
            /\ ~Known(clients, a)
            /\ \A w \in workersOf(a) : ~workers[w].isConnected /\ ~workers[w].isJoined

\* the tokens of the participant segments are pairwise distinct, so the
\* number of times a segment was handed on is the number of times its token
\* occurs
RECURSIVE CountTok(_, _)
CountTok(tok, text) ==
    IF text = <<>> THEN 0
    ELSE (IF Head(text) = tok THEN 1 ELSE 0) + CountTok(tok, Tail(text))

RECURSIVE CountInSegs(_, _)
CountInSegs(tok, segs) ==
    IF segs = <<>> THEN 0
    ELSE CountTok(tok, Head(segs).text) + CountInSegs(tok, Tail(segs))

RECURSIVE CountInLists(_, _)
CountInLists(tok, lists) ==
    IF lists = <<>> THEN 0
    ELSE CountInSegs(tok, Head(lists)) + CountInLists(tok, Tail(lists))

\* C4 (as stated): while the client is joined and the segments arrived in
\* non-decreasing start order, every participant segment delivered so far is
\* held exactly once: in the pending buffer or in one finalized utterance.
C4_ExactlyOnce ==
    (isJoined /\ inOrder) =>
        \A s \in delivered :
            CountInSegs(s.text[1], pendingSegments) + CountInLists(s.text[1], emitted) = 1

\* C5: while the client is joined the watermark lastSegmentStart never
\* decreases, and every segment appended to the pending buffer starts after
\* the watermark of the moment.
C5_WatermarkMonotone ==
    [][/\ (isJoined /\ isJoined') => lastSegmentStart' >= lastSegmentStart
       /\ \A i \in (Len(pendingSegments) + 1)..Len(pendingSegments') :
            pendingSegments'[i].start > lastSegmentStart]_vars

C5_Witness ==
    /\ nUpdates = 2
    /\ delivered = {P2}
    /\ processedSegments = {}
    /\ pendingSegments = <<P2>>
    /\ lastSegmentStart = 12

\* the two segments of a two-segment input in the order of their starts
firstSeg == SortByStart(cIn)[1]

secondSeg == SortByStart(cIn)[2]

pairOfOneSpeaker == cDone /\ Len(cIn) = 2 /\ firstSeg.speaker = secondSeg.speaker

gapOfPair == secondSeg.start - firstSeg.end

\* C6 (as stated): two adjacent segments of one speaker with a gap of at
\* most 2.0 become one utterance whose text is the two texts joined by a
\* space and whose end is the later segment's end; with a larger gap they
\* stay two utterances.
C6_MergeJoinsWithSpace ==
    pairOfOneSpeaker =>
        IF gapOfPair <= MergeGap
        THEN cOut = <<[firstSeg EXCEPT !.text = firstSeg.text \o <<" ">> \o secondSeg.text,
                                       !.end = secondSeg.end]>>
        ELSE cOut = <<firstSeg, secondSeg>>

\* C6 (amended): with a gap of at most 2.0 the two segments become one
\* utterance that ends where the later segment ends; its text is the two
\* texts joined by a space when both are non-empty, and otherwise the text
\* of the later segment if that is non-empty, else the text of the earlier
\* one.  With a larger gap they stay two utterances.
C6_MergeGap ==
    pairOfOneSpeaker =>
        IF gapOfPair <= MergeGap
        THEN /\ Len(cOut) = 1
             /\ cOut[1].speaker = firstSeg.speaker
             /\ cOut[1].start = firstSeg.start
             /\ cOut[1].end = secondSeg.end
             /\ cOut[1].text =
                  IF firstSeg.text # <<>> /\ secondSeg.text # <<>>
                  THEN firstSeg.text \o <<" ">> \o secondSeg.text
                  ELSE IF secondSeg.text # <<>> THEN secondSeg.text ELSE firstSeg.text
        ELSE cOut = <<firstSeg, secondSeg>>

C6_Witness ==
    /\ pairOfOneSpeaker
    /\ gapOfPair = MergeGap
    /\ firstSeg.text = <<"x">> /\ secondSeg.text = <<"y">>
    /\ cOut = <<Seg(firstSeg.speaker, "participant", <<"x", " ", "y">>,
                    firstSeg.start, secondSeg.end)>>

\* C7 (as stated): on a freshly joined client, Alice "hello" 0.0-1.0 and
\* Alice "there" 1.2-2.0 delivered together in one batch finalize to the one
\* utterance "hello there".
C7_HelloThere ==
    (nUpdates = 1 /\ delivered = {P1, P2} /\ Len(emitted) = 1) =>
        emitted[1] = <<HelloThere>>

agentVoiceIn(segs) == \E i \in 1..Len(segs) : isAgentSpeaker(segs[i])

\* C8: no agent-voice segment is ever in the pending buffer or in a list
\* handed to the utterance callbacks, and an agent-voice segment whose
\* normalized text is already marked processed is not handed on to
\* handleAssistantSegments.
C8_AgentVoiceNotForwarded ==
    [][/\ ~agentVoiceIn(pendingSegments')
       /\ \A i \in 1..Len(emitted') : ~agentVoiceIn(emitted'[i])
       /\ \A job \in assistantJobs' \ assistantJobs :
            \A i \in 1..Len(job) : ~hasProcessedSegment(processedSegments, job[i].text)]_vars

C8_Witness ==
    /\ universe = {P2, P4, A1, A2}
    /\ Normalize(A1.text) \in processedSegments
    /\ assistantJobs = {}
    /\ nUpdates = 2
    /\ Len(emitted) = 1

\* C9 (as stated): after Stop on a client with a non-empty pending buffer
\* and an armed debounce timer, the pending buffer is empty, the timer is
\* gone, and no utterance callback is called from then on.
C9_NoCallbackAfterStop ==
    [][stopHadPending' =>
          /\ pendingSegments' = <<>>
          /\ debounceTimer' = NilTimer
          /\ stopHadPending => invoked' = invoked]_vars

\* C9 (amended): after Stop on a client with a non-empty pending buffer and
\* an armed debounce timer, the pending buffer is empty and the timer is
\* gone, and from then on nothing is finalized: no callback goroutine is
\* started.  (A goroutine started by an earlier finalization may still run.)
C9_StopSilences ==
    [][stopHadPending' =>
          /\ pendingSegments' = <<>>
          /\ debounceTimer' = NilTimer
          /\ stopHadPending => emitted' = emitted]_vars

C9_Witness == stopHadPending /\ timerFuncs = <<>> /\ Len(emitted) = 1 /\ nUpdates = 2

\* C10: the number of agents never exceeds MaxAgents, and a CreateAgent call
\* that returns the capacity error was made with MaxAgents agents and leaves
\* the agents, the log buffers and the meetings as they were.
C10_Capacity ==
    /\ [](Cardinality(DOMAIN agents) <= MaxAgents)
    /\ [][(result' = "capacity" /\ result # "capacity") =>
             /\ Cardinality(DOMAIN agents) = MaxAgents
             /\ UNCHANGED <<agents, logBuffers, meetings>>]_vars
    /\ [][nextId' # nextId => Cardinality(DOMAIN agents) < MaxAgents]_vars

C10_Witness ==
    /\ result = "capacity"
    /\ running
    /\ Cardinality(DOMAIN agents) = MaxAgents
    /\ nextId = MaxAgents + 1

\* a step of the broadcast case of run: a message leaves h.broadcast
DispatchStep == Len(broadcastCh') < Len(broadcastCh)

Numbers(q) == {q[i][2] : i \in 1..Len(q)}

\* C11: when the hub dispatches an event, every subscriber of the event
\* whose outbound queue is full has its queue closed and is removed from
\* hubClients, from every agent set and from the session set, every other
\* subscriber of the event gets the event appended to its queue, and the
\* dispatch is never blocked: it is enabled whenever the loop runs and a
\* message is buffered.
C11_FullQueueDropped ==
    /\ [](hubLoop = "running" /\ broadcastCh # << >> /\ hubPanic = "none"
          => ENABLED RunBroadcast)
    /\ [][DispatchStep =>
            /\ hubPanic' = "none"
            /\ \A c \in targetsOf(Head(broadcastCh)) :
                 IF Len(send[c]) >= SendCap
                 THEN /\ sendClosed'[c] = 1
                      /\ c \notin hubClients'
                      /\ c \notin sessionClients'
                      /\ \A a \in DOMAIN clientsByAgent' : c \notin clientsByAgent'[a]
                      /\ send'[c] = send[c]
                 ELSE /\ send'[c] = Append(send[c], Head(broadcastCh))
                      /\ sendClosed'[c] = 0
                      /\ (c \in hubClients <=> c \in hubClients')]_vars

\* a subscriber was dropped by the dispatch (its readPump has not ended) and
\* another one, still registered, holds an event the dropped one never got
C11_Witness ==
    \E c, d \in Subs :
        /\ c # d
        /\ sendClosed[c] = 1 /\ spc[c] = "open" /\ c \notin hubClients
        /\ d \in hubClients
        /\ \E n \in Numbers(send[d]) : \A k \in Numbers(send[c]) : n > k
        /\ Numbers(send[c]) # {}

\* C12: every change of the status of an agent is followed by a status
\* event for that agent carrying the new value: the step that changes the
\* status appends the event to the events published through the hub.
C12_StatusChangePublished ==
    [][\A a \in DOMAIN agents \cap DOMAIN agents' :
          agents'[a].Status # agents[a].Status =>
              /\ Len(statusEvents') > Len(statusEvents)
              /\ statusEvents'[Len(statusEvents')] = <<a, agents'[a].Status>>]_vars

AllowedTransitions ==
    {<<"created", "starting">>, <<"starting", "running">>, <<"running", "stopping">>,
     <<"stopping", "stopped">>, <<"starting", "error">>, <<"running", "error">>,
     <<"stopped", "starting">>, <<"error", "starting">>}

\* the status changes made by one step: stopAgent writes stopping and then
\* stopped inside one critical section
ChangesOf(old, new) ==
    IF new = "stopped" /\ old # "stopping"
    THEN {<<old, "stopping">>, <<"stopping", "stopped">>}
    ELSE {<<old, new>>}

\* C13: each change of an agent's status is one of created->starting,
\* starting->running, running->stopping, stopping->stopped, starting->error,
\* running->error, stopped->starting, error->starting.
C13_OnlyListedTransitions ==
    [][\A a \in DOMAIN agents \cap DOMAIN agents' :
          agents'[a].Status # agents[a].Status =>
              ChangesOf(agents[a].Status, agents'[a].Status) \subseteq AllowedTransitions]_vars

\* C14: no queue of a subscriber is closed more than once, and a
\* registration (ServeWs, ServeSessionWs) or an unregistration (the end of
\* readPump) made after Hub.Stop does not fail.
C14_RegisterAfterStopIsNoOp ==
    /\ \A c \in Subs : sendClosed[c] <= 1
    /\ hubPanic \notin {"register", "unregister", "close"}

\* C15: once AgentManager.Stop has cancelled m.ctx and waits for the
\* workers, it eventually returns; and at the step at which it returns
\* every worker has exited and every agent context is cancelled.
C15_StopReturns ==
    /\ (stopPc = "waiting") ~> (stopPc = "returned")
    /\ [][stopPc = "waiting" /\ stopPc' = "returned" =>
            \A w \in DOMAIN workers' : workers'[w].pc = "exited" /\ workers'[w].ctxDone]_vars

\* Stop has returned after a worker that had connected its client and was
\* waiting on its agent context was released by m.cancel()
C15_Witness ==
    /\ stopPc = "returned"
    /\ \E w \in DOMAIN workers :
         /\ workers[w].pc = "exited" /\ workers[w].isConnected
         /\ Known(agents, workers[w].agent)
         /\ agents[workers[w].agent].Status = "running"
         /\ Known(clients, workers[w].agent) /\ clients[workers[w].agent] = w

\* the clients registered in m.clients
registered(cs) == {cs[a] : a \in DOMAIN cs}

\* C16: at the step at which AgentManager.Stop returns, no client registered
\* with the manager is running (its polling loop active), connected or
\* joined.
C16_StopClosesConnections ==
    [][stopPc = "waiting" /\ stopPc' = "returned" =>
          \A w \in registered(clients') :
              /\ ~workers'[w].isRunning
              /\ ~workers'[w].isConnected
              /\ ~workers'[w].isJoined]_vars

\* C17: after a DeleteAgent(id) that removed agent id, every worker of id
\* has exited or has had its agent context cancelled, no agent context of
\* id is stored, and no client of id is running or connected.
C17_DeleteStopsFirst ==
    [][\A a \in DOMAIN agents \ DOMAIN agents' :
          /\ ~Known(agentContexts', a)
          /\ \A w \in DOMAIN workers' :
               workers'[w].agent = a =>
                   /\ workers'[w].pc = "exited" \/ workers'[w].ctxDone
                   /\ ~workers'[w].isRunning
                   /\ ~workers'[w].isConnected]_vars

\* a step at which worker w returns because joinlyClient.Start() failed or
\* panicked, or because the auto-join failed or panicked
FailStep(w) == workers[w].pc \in {"connecting", "joining"} /\ workers'[w].pc = "exited"

C19_AgentStopCancelsTasks == \A t \in stoppedWhile : tokenCancelled[t]


\* the words of a string, its spaces left out
Words(s) == SelectSeq(s, LAMBDA ch : ch # " ")

\* C20: after any sequence of ProcessUtterance calls, the transcript holds
\* one entry for each call that carried text, in call order, with the
\* speaker and the words of that call, and the participants list names
\* every speaker of the transcript exactly once.
C20_TranscriptAndParticipants ==
    /\ Len(Transcript) = Len(handed)
    /\ \A i \in 1..Len(Transcript) :
          /\ Transcript[i].Speaker = handed[i].Speaker
          /\ Words(Transcript[i].Text) = handed[i].Words
    /\ \A i, j \in 1..Len(Participants) :
          Participants[i] = Participants[j] => i = j
    /\ {Participants[i] : i \in 1..Len(Participants)}
         = {Transcript[i].Speaker : i \in 1..Len(Transcript)}

\* a speaker has been heard twice, with different words, one of the two
\* utterances made of more than one segment
C20_Witness ==
    /\ Len(Transcript) = 2
    /\ Transcript[1].Speaker = Transcript[2].Speaker
    /\ Transcript[1].Text # Transcript[2].Text
    /\ Len(handed[2].Words) = 2
    /\ Len(Participants) = 1


\* C21: a response task that finishes removes only its own token from
\* utteranceTasks: when the stored token belongs to another (newer) task,
\* the finishing task leaves it in place.
C21_FinishRemovesOwnTokenOnly ==
    [][\A t \in TaskIds :
          (tpc[t] = "cleanup" /\ tpc'[t] = "done" /\ utteranceTasks # t)
              => utteranceTasks' = utteranceTasks]_vars


\* the workers of agent a that have not returned
liveWorkers(a) == {w \in DOMAIN workers : workers[w].agent = a /\ workers[w].pc # "exited"}

\* the clients made for agent a that are running
liveClients(a) == {w \in DOMAIN workers : workers[w].agent = a /\ workers[w].isRunning}

\* the agent contexts made for agent a that have not been cancelled
liveContexts(a) == {w \in DOMAIN workers : workers[w].agent = a /\ ~workers[w].ctxDone}

\* C22: for every agent at most one worker goroutine, at most one agent
\* context that has not been cancelled and at most one running client exist
\* at a time, whatever the sequence of StartAgent calls.
C22_OneWorkerPerAgent ==
    \A a \in IssuedIds :
        /\ Cardinality(liveWorkers(a)) <= 1
        /\ Cardinality(liveContexts(a)) <= 1
        /\ Cardinality(liveClients(a)) <= 1


\* C23: the clients map holds a client for an id only if the agent exists
\* and its status is running or stopping; an agent whose status is created,
\* stopped or error has no registered and no connected client.
C23_ClientsOnlyWhileRunning ==
    /\ \A id \in DOMAIN clients :
          Known(agents, id) /\ agents[id].Status \in {"running", "stopping"}
    /\ \A id \in DOMAIN agents :
          agents[id].Status \in {"created", "stopped", "error"} =>
              /\ ~Known(clients, id)
              /\ \A w \in DOMAIN workers :
                    workers[w].agent = id => ~workers[w].isConnected


\* the goroutines inside a write to the structure
writers(structure) ==
    {g \in Goroutines : busy[g] = Op("write", structure)}

\* C24: a goroutine that writes a shared structure holds the lock that
\* guards it exclusively, and no two goroutines write the same structure at
\* the same time.
C24_WritesUnderExclusiveLock ==
    \A structure \in {"agents", "logBuffers", "processedSegments", "registries"} :
        /\ \A g \in writers(structure) : holder[Guard(structure)] = g
        /\ Cardinality(writers(structure)) <= 1


\* C25: pending segments are finalized only by the function of the timer
\* armed last: at a finalization no newer timer is armed, the timer stored
\* in debounceTimer is the one that fired.
C25_FinalizedByNewestTimer ==
    [][Len(emitted') > Len(emitted) => debounceTimer.state = "fired"]_vars


\* C26: utterances are finalized in non-decreasing start order: no segment
\* of a later finalized utterance starts before a segment of an earlier one.
C26_FinalizedInStartOrder ==
    \A i, j \in 1..Len(emitted) :
        i < j =>
            \A a \in 1..Len(emitted[i]), b \in 1..Len(emitted[j]) :
                emitted[i][a].start <= emitted[j][b].start

\* two utterances have been finalized, the second one later in the meeting
C26_Witness ==
    /\ Len(emitted) = 2
    /\ emitted[1] # << >>
    /\ emitted[2] # << >>
    /\ emitted[1][1].start < emitted[2][1].start


\* C27: an older utterance never supersedes a newer one: the task that a
\* handleUtterance call cancels belongs to an utterance finalized before the
\* utterance of the call.
C27_OlderNeverSupersedesNewer ==
    [][\A t, u \in TaskIds :
          (/\ tpc[t] = "none" /\ tpc'[t] = "cancelledPrev"
           /\ ~tokenCancelled[u] /\ tokenCancelled'[u]) => u < t]_vars


\* C28: no goroutine holds m.mu or c.mu, for writing or for reading, while
\* a call it made to the backend or to the language model is in progress.
C28_NoLockAcrossCall ==
    \A g \in Goroutines :
        busy[g].kind = "call" =>
            \A l \in {"m.mu", "c.mu"} : holder[l] # g /\ g \notin readers[l]


\* the subscribers listed in clientsByAgent or in sessionClients
listed == UNION {clientsByAgent[a] : a \in DOMAIN clientsByAgent} \cup sessionClients

\* C29: the hub never sends on and never closes a queue that is closed:
\* every subscriber listed in clientsByAgent or sessionClients is in clients
\* and its queue is open.
C29_ListedSubscribersOpen ==
    /\ hubPanic \notin {"send", "close"}
    /\ \A c \in listed : c \in hubClients /\ sendClosed[c] = 0


\* C30: an event published for an agent is enqueued only to the subscribers
\* registered for that agent and to the session-wide subscribers: a queue
\* of a subscriber registered for another agent never holds it, and at a
\* dispatch every session-wide subscriber and every subscriber of the
\* agent whose queue has room gets the event.
C30_AgentScopedDelivery ==
    /\ [](\A c \in Subs : \A i \in 1..Len(send[c]) :
             isSession(c) \/ send[c][i][1] = agentOf(c))
    /\ [][DispatchStep =>
            \A c \in Subs :
                LET event == Head(broadcastCh)
                    subscribed ==
                        \/ c \in sessionClients
                        \/ /\ event[1] \in DOMAIN clientsByAgent
                           /\ c \in clientsByAgent[event[1]]
                IN /\ send'[c] # send[c] => subscribed
                   /\ (subscribed /\ Len(send[c]) < SendCap) =>
                          send'[c] = Append(send[c], event)]_vars

\* the session-wide subscriber holds an event of agent a2 while a
\* subscriber of agent a1 is registered and did not get it
C30_Witness ==
    /\ send["s3"] # << >>
    /\ send["s3"][1][1] = "a2"
    /\ "s1" \in hubClients
    /\ "s1" \in clientsByAgent["a1"]
    /\ \A i \in 1..Len(send["s1"]) : send["s1"][i][1] = "a1"


\* C31: with NameTrigger set and a non-empty agent name, a batch arms the
\* debounce timer only if a pending segment names the agent, and segments
\* that do not name the agent stay pending: every finalized utterance holds
\* a segment that names the agent.  With NameTrigger unset every batch that
\* queues a new participant segment arms the timer.
namesAgent(segs) == \E k \in 1..Len(segs) : nameInText(AgentName, segs[k].text)

C31_ArmedOnlyWhenNamed ==
    [][(debounceTimer' # debounceTimer /\ debounceTimer'.state = "armed")
         => (nameTrigger => namesAgent(pendingSegments'))]_vars

C31_NameGatesFinalization ==
    nameTrigger => \A i \in 1..Len(emitted) : namesAgent(emitted[i])


\* C32: a run of processConsolidatedUtterance on a non-empty pending buffer
\* starts the utterance callback once with the merged list, records the hash
\* of the utterance as received, and leaves the pending buffer empty, and no
\* callback has run when it returns; on an empty pending buffer it starts no
\* callback and changes nothing.
C32_FinalizeOnceOrNothing ==
    [][Len(timerFuncs') < Len(timerFuncs) =>
         IF pendingSegments # <<>>
         THEN LET merged == compactSegments(pendingSegments)
              IN /\ emitted' = Append(emitted, merged)
                 /\ hashText(merged[1].text) \in utteranceStates'
                 /\ utteranceStates \subseteq utteranceStates'
                 /\ utteranceStates' \ utteranceStates \subseteq {hashText(merged[1].text)}
                 /\ pendingSegments' = <<>>
                 /\ invoked' = invoked
         ELSE UNCHANGED <<emitted, utteranceStates, pendingSegments,
                          lastUtteranceStart, lastSegmentStart, invoked,
                          processedSegments, debounceTimer>>]_vars

\* an utterance was finalized and its callback has not begun to run
C32_Witness ==
    /\ emitted # <<>> /\ Len(emitted) \notin invoked
    /\ pendingSegments = <<>> /\ utteranceStates # {}


\* C33: a response task that finds its token cancelled at a checkpoint
\* returns silently: the step at the checkpoint and every later step of the
\* task appends no error-level log entry, leaves the agents' status
\* unchanged, leaves the conversation history unchanged and speaks nothing.
silent ==
    UNCHANGED <<speakErrors, agents, statusEvents, conversationHistory, spoken>>

C33_CancelledTaskReturnsSilently ==
    [][\A t \in TaskIds :
          /\ (tpc[t] \in {"begin", "llm"} /\ tokenCancelled[t] /\ tpc'[t] # tpc[t])
                => (tpc'[t] = "cleanup" /\ silent)
          /\ (tpc[t] = "cleanup" /\ tpc'[t] # tpc[t])
                => (tpc'[t] = "done" /\ silent)]_vars

\* a task returned at the checkpoint after the model call while an earlier
\* task has spoken
C33_Witness ==
    \E t \in TaskIds :
       /\ tpc[t] = "done" /\ tokenCancelled[t]
       /\ ~InSeq(t, spoken) /\ t \notin speakErrors
       /\ conversationHistory # <<>>
       /\ \A i \in 1..Len(conversationHistory) :
             conversationHistory[i].message # <<"reply", t>>


\* C34: for an agent in analyst mode no response task waits for or has
\* received a reply of the language model, nothing is spoken and the
\* conversation history stays empty; an utterance that carries text is
\* handed to the analyst.
C34_AnalystModeIsSilent ==
    conversationMode = "analyst" =>
        /\ \A t \in TaskIds : tpc[t] \notin {"llm", "speak"}
        /\ spoken = <<>>
        /\ conversationHistory = <<>>

\* an analyst-mode task handed its utterance to the analyst and returned
C34_Witness ==
    /\ conversationMode = "analyst"
    /\ analystTranscript # <<>>
    /\ \E t \in TaskIds : tpc[t] = "done"


\* C35: once DeleteAgent(id) has succeeded (the id was issued and the agents
\* map no longer holds it), none of the per-agent maps holds an entry for id,
\* and GetAgentLogs(id), which looks id up in logBuffers, answers agent not
\* found.
deleted == {id \in IssuedIds : ~Known(agents, id)}

C35_NothingLeftAfterDelete ==
    \A id \in deleted :
        /\ ~Known(clients, id)
        /\ ~Known(logBuffers, id)
        /\ ~Known(agentContexts, id)


\* C36: the supervisor lock, the connection lock and the hub lock are never
\* waited on cyclically, and every lifecycle call (StartAgent, StopAgent,
\* DeleteAgent, AgentManager.Stop) eventually returns, provided every call
\* to the backend or the model returns.
holders(l) == ({holder[l]} \ {"none"}) \cup readers[l]

\* the goroutines g is waiting for
waitsFor(g) ==
    IF next(g, "lock") THEN holders(Head(todo[g]).arg)
    ELSE IF next(g, "rlock") THEN {holder[Head(todo[g]).arg]} \ {"none"}
    ELSE IF next(g, "wait") /\ ~(todo["worker"] = << >> /\ idle("worker"))
    THEN {"worker"}
    ELSE {}

RECURSIVE waitsForWithin(_, _)
waitsForWithin(g, n) ==
    IF n = 0 THEN {}
    ELSE waitsFor(g) \cup UNION {waitsForWithin(h, n - 1) : h \in waitsFor(g)}

noCyclicWait == \A g \in Goroutines : g \notin waitsForWithin(g, Cardinality(Goroutines))

hasReturned(g) == todo[g] = << >> /\ idle(g)

C36_NoDeadlock ==
    /\ []noCyclicWait
    /\ (~hasReturned("api")) ~> hasReturned("api")

\* AgentManager.Stop waits for the wait group while the worker goroutine is
\* inside JoinMeeting and the response task waits for the supervisor lock
C36_Witness ==
    /\ next("api", "wait") /\ "worker" \in waitsFor("api")
    /\ busy["worker"] = Op("call", "join")


\* C37: the Agent values returned by CreateAgent, GetAgent and ListAgents
\* are copies: a write of the caller to a returned value never changes the
\* stored agent, and a later write of the supervisor never shows through a
\* value already returned.
C37_ReturnedAgentsAreCopies ==
    /\ heapAgent = written
    /\ \A i \in 1..Len(returned) : view(returned[i]) = returned[i].seen


\* C38: the text a response task stores in the conversation history under
\* a speaker S (the text it also logs and sends to the model) is the text
\* of the segments of its list that were spoken by S.
spokenBy(segs, speaker) == SelectSeq(segs, LAMBDA s : s.speaker = speaker)

C38_TextOfTheNamedSpeaker ==
    \A i \in 1..Len(conversationHistory) :
        LET entry == conversationHistory[i]
        IN entry.speaker # "Assistant" =>
              \E segs \in TaskInputs :
                  entry.message = fullTranscriptOf(spokenBy(segs, entry.speaker))


\* C39: the conversation history of an agent never holds more than 20
\* entries and equals the most recently appended entries (up to 20) in
\* append order; the context built for the model is the last 10 entries of
\* the history it was built from, one line each in order, or the text
\* "No previous context." when that history was empty.
lastOf(seq, n) == SubSeq(seq, IF Len(seq) > n THEN Len(seq) - n + 1 ELSE 1, Len(seq))

C39_HistoryAndContext ==
    /\ Len(conversationHistory) <= 20
    /\ conversationHistory = lastOf(appended, 20)
    /\ builtContext # << >> =>
          IF contextFrom = << >> THEN builtContext = <<"No previous context.">>
          ELSE builtContext = contextLines(lastOf(contextFrom, 10))

\* the oldest entry was dropped from a full history and a context was built
\* from more than 10 entries
C39_Witness ==
    /\ Len(appended) > 20 /\ Len(conversationHistory) = 20
    /\ Len(contextFrom) > 10 /\ builtContext # << >>


\* C40: for every meeting record AgentCount equals the length of AgentIDs
\* and is at least 1, AgentIDs lists exactly the existing agents whose
\* MeetingURL is the URL of the record, and a record exists for a URL if and
\* only if an existing agent targets it.
agentsOf(url) == {id \in DOMAIN agents : agents[id].Config.MeetingURL = url}

====
